---- MODULE Spec2Model ----
(***************************************************************************)
(* Heat pump models on top of a process-network solver: the topology       *)
(* classes (components, connections, two-stage parametrisation), the       *)
(* high-pressure sweep of HeatPumpBase, the multiplot drivers that walk    *)
(* the input directory tree, and the scenario orchestration.               *)
(*                                                                         *)
(* The network solver, the fluid-property backend and the exergy analysis  *)
(* are external libraries: a solve or an analysis is a step whose numeric  *)
(* outcome is chosen nondeterministically.                                 *)
(***************************************************************************)
EXTENDS Integers, Sequences, FiniteSets, TLC

VARIABLES
    \* ---- one heat pump object (HeatPumpBase and its subclasses) ----
    hp,          \* which class of which source file the object is
    pc,          \* position inside run_model (or inside the script)
    calls,       \* the methods run_model has called, in order
    comps,       \* self.comps : key -> component
    conns,       \* self.conns : key -> Connection
    busses,      \* self.busses : the bus labels created, in order
    nw_conns,    \* the objects handed to self.nw.add_conns
    nw_busses,   \* the busses handed to self.nw.add_busses
    attrs,       \* per connection key, the attributes currently specified
    solves,      \* one record per nw.solve of run_model / of the script
    \* ---- run_p_high_analysis ----
    sw_pc,       \* "idle", "loop", "returned"
    sw_args,     \* [p_min, p_max, stepwidth]
    p_high_range,\* the list the loop walks
    sw_i,        \* index of the next pressure of p_high_range
    results,     \* DataFrame results
    E_Ds,        \* DataFrame E_Ds
    c32_p,       \* the value of conns['c32'].p set by the sweep (0: not set by it)
    sw_log,      \* the solver / analysis calls of the sweep, in order
    epsilon,     \* self.epsilon
    eans,        \* one record per perform_exergy_analysis / ExergyAnalysis of the script
    \* ---- multiplot_p_high_analysis_hp / _refrig ----
    mp,          \* state of one multiplot call
    \* ---- orchestrate: program_opt / program_sensitivity ----
    orch,        \* state of one program_* call
    \* ---- sensitivity_analysis: sensitivity ----
    sens         \* state of one sensitivity() call

hpvars == <<hp, pc, calls, comps, conns, busses, nw_conns, nw_busses, attrs, solves>>
swvars == <<sw_pc, sw_args, p_high_range, sw_i, results, E_Ds, c32_p, sw_log, epsilon, eans>>
vars == <<hpvars, swvars, mp, orch, sens>>

-----------------------------------------------------------------------------
(* Python values *)

\* a str object (what iterating a dict yields: its keys)
PyStr(s) == [type |-> "str", value |-> s]

\* tespy.connections.Connection(source, outlet, target, inlet, label=...)
Connection(s, o, t, i, l) ==
    [type |-> "Connection", source |-> s, source_id |-> o,
     target |-> t, target_id |-> i, label |-> l]

\* a tespy component: ComponentClass(label)
Comp(cls, label) == [cls |-> cls, label |-> label]

\* one conn.set_attr(...) call: the keywords given a value, the keywords given None
SetAttr(key, given, none) == [conn |-> key, given |-> given, none |-> none]

\* numpy.nan and a float
NaN == [nan |-> TRUE, val |-> 0]
Num(x) == [nan |-> FALSE, val |-> x]

Range(s) == {s[i] : i \in 1..Len(s)}

-----------------------------------------------------------------------------
(* The classes of the repository, by source file *)

F_models == "src/models.py"
F_ihx == "src/heatpumps/models/ihx.py"
F_ch4_parallel == "src/chapter 4/heatpumps/models/parallel.py"
F_ch5_intercooling == "src/chapter 5/heatpumps/models/intercooling.py"
F_script == "src/chapter 4/Simple_heat_pump_exergy_analysis/simple_heat_pump.py"

Class(f, c) == [file |-> f, cls |-> c]

Classes ==
    { Class(F_models, "HeatPumpSimple"), Class(F_models, "HeatPumpIHX"),
      Class(F_models, "HeatPumpParallelComp"), Class(F_models, "HeatPumpIntercooling"),
      Class(F_ihx, "HeatPumpIHX"),
      Class(F_ch4_parallel, "HeatPumpParallelComp"),
      Class(F_ch5_intercooling, "HeatPumpIntercooling") }

Script == Class(F_script, "script")

-----------------------------------------------------------------------------
(* The topologies: components, connections, and the connection attributes  *)
(* the initial and the design parametrisation set (given a value) or unset *)
(* (given None), in source order.                                          *)

\* src/models.py, lines 79-95
models_HeatPumpSimple_generate_components ==
    ("gc" :> Comp("HeatExchanger", "Gas cooler")) @@
    ("ev" :> Comp("HeatExchanger", "Evaporator")) @@
    ("va" :> Comp("Valve", "Valve")) @@
    ("cp" :> Comp("Compressor", "Compressor")) @@
    ("cc" :> Comp("CycleCloser", "CycleCloser")) @@
    ("si_in" :> Comp("Source", "Sink in")) @@
    ("si_out" :> Comp("Sink", "Sink out")) @@
    ("sou_in" :> Comp("Source", "Source in")) @@
    ("sou_out" :> Comp("Sink", "Source out"))

\* src/models.py, lines 97-132
models_HeatPumpSimple_generate_connections ==
    ("c31" :> Connection("cc", "out1", "gc", "in1", "31")) @@
    ("c32" :> Connection("gc", "out1", "va", "in1", "32")) @@
    ("c33" :> Connection("va", "out1", "ev", "in2", "33")) @@
    ("c34" :> Connection("ev", "out2", "cp", "in1", "34")) @@
    ("c30" :> Connection("cp", "out1", "cc", "in1", "30")) @@
    ("c21" :> Connection("si_in", "out1", "gc", "in2", "21")) @@
    ("c22" :> Connection("gc", "out2", "si_out", "in1", "22")) @@
    ("c11" :> Connection("sou_in", "out1", "ev", "in1", "11")) @@
    ("c12" :> Connection("ev", "out1", "sou_out", "in1", "12"))

\* src/models.py, lines 134-200
models_HeatPumpSimple_init_simulation_set_attr ==
    << SetAttr("c32", {"h", "p"}, {}),
       SetAttr("c33", {"p"}, {}),
       SetAttr("c34", {"h", "fluid"}, {}),
       SetAttr("c21", {"T", "p", "fluid"}, {}),
       SetAttr("c22", {"T"}, {}),
       SetAttr("c11", {"T", "p", "fluid"}, {}),
       SetAttr("c12", {"T"}, {}) >>

\* src/models.py, lines 202-215
models_HeatPumpSimple_design_simulation_set_attr ==
    << SetAttr("c32", {}, {"h"}),
       SetAttr("c33", {}, {"p"}),
       SetAttr("c34", {"Td_bp"}, {"h"}) >>

\* src/models.py, lines 291-308
models_HeatPumpIHX_generate_components ==
    ("gc" :> Comp("HeatExchanger", "Gas cooler")) @@
    ("ev" :> Comp("HeatExchanger", "Evaporator")) @@
    ("va" :> Comp("Valve", "Valve")) @@
    ("cp" :> Comp("Compressor", "Compressor")) @@
    ("ihx" :> Comp("HeatExchanger", "Internal Heat Exchanger")) @@
    ("cc" :> Comp("CycleCloser", "CycleCloser")) @@
    ("si_in" :> Comp("Source", "Sink in")) @@
    ("si_out" :> Comp("Sink", "Sink out")) @@
    ("sou_in" :> Comp("Source", "Source in")) @@
    ("sou_out" :> Comp("Sink", "Source out"))

\* src/models.py, lines 310-351
models_HeatPumpIHX_generate_connections ==
    ("c31" :> Connection("cc", "out1", "gc", "in1", "31")) @@
    ("c32" :> Connection("gc", "out1", "ihx", "in1", "32")) @@
    ("c33" :> Connection("ihx", "out1", "va", "in1", "33")) @@
    ("c34" :> Connection("va", "out1", "ev", "in2", "34")) @@
    ("c35" :> Connection("ev", "out2", "ihx", "in2", "35")) @@
    ("c36" :> Connection("ihx", "out2", "cp", "in1", "36")) @@
    ("c30" :> Connection("cp", "out1", "cc", "in1", "30")) @@
    ("c21" :> Connection("si_in", "out1", "gc", "in2", "21")) @@
    ("c22" :> Connection("gc", "out2", "si_out", "in1", "22")) @@
    ("c11" :> Connection("sou_in", "out1", "ev", "in1", "11")) @@
    ("c12" :> Connection("ev", "out1", "sou_out", "in1", "12"))

\* src/models.py, lines 353-429
models_HeatPumpIHX_init_simulation_set_attr ==
    << SetAttr("c36", {"h", "p", "fluid"}, {}),
       SetAttr("c32", {"h", "p"}, {}),
       SetAttr("c35", {"h"}, {}),
       SetAttr("c21", {"T", "p", "fluid"}, {}),
       SetAttr("c22", {"T"}, {}),
       SetAttr("c11", {"T", "p", "fluid"}, {}),
       SetAttr("c12", {"T"}, {}) >>

\* src/models.py, lines 431-446
models_HeatPumpIHX_design_simulation_set_attr ==
    << SetAttr("c36", {}, {"h", "p"}),
       SetAttr("c32", {}, {"h"}),
       SetAttr("c35", {"Td_bp"}, {"h"}) >>

\* src/models.py, lines 529-552
models_HeatPumpParallelComp_generate_components ==
    ("gc" :> Comp("HeatExchanger", "Gas cooler")) @@
    ("ev" :> Comp("HeatExchanger", "Evaporator")) @@
    ("va_1" :> Comp("Valve", "Valve 1")) @@
    ("va_2" :> Comp("Valve", "Valve 2")) @@
    ("cp_1" :> Comp("Compressor", "Compressor 1")) @@
    ("cp_2" :> Comp("Compressor", "Compressor 2")) @@
    ("ihx_1" :> Comp("HeatExchanger", "Internal Heat Exchanger 1")) @@
    ("ihx_2" :> Comp("HeatExchanger", "Internal Heat Exchanger 2")) @@
    ("fl" :> Comp("DropletSeparator", "Flash Tank")) @@
    ("mg" :> Comp("Merge", "Merge")) @@
    ("cc" :> Comp("CycleCloser", "CycleCloser")) @@
    ("si_in" :> Comp("Source", "Sink in")) @@
    ("si_out" :> Comp("Sink", "Sink out")) @@
    ("sou_in" :> Comp("Source", "Source in")) @@
    ("sou_out" :> Comp("Sink", "Source out"))

\* src/models.py, lines 554-616
models_HeatPumpParallelComp_generate_connections ==
    ("c31" :> Connection("cc", "out1", "gc", "in1", "31")) @@
    ("c32" :> Connection("gc", "out1", "ihx_2", "in1", "32")) @@
    ("c33" :> Connection("ihx_2", "out1", "va_1", "in2", "33")) @@
    ("c34" :> Connection("va_1", "out2", "fl", "in1", "34")) @@
    ("c35" :> Connection("fl", "out1", "ihx_1", "in1", "35")) @@
    ("c36" :> Connection("ihx_1", "out1", "va_2", "in1", "36")) @@
    ("c37" :> Connection("va_2", "out1", "ev", "in2", "37")) @@
    ("c38" :> Connection("ev", "out2", "ihx_1", "in2", "38")) @@
    ("c39" :> Connection("ihx_1", "out2", "cp_1", "in1", "39")) @@
    ("c40" :> Connection("cp_1", "out1", "mg", "in1", "40")) @@
    ("c41" :> Connection("fl", "out2", "ihx_2", "in2", "41")) @@
    ("c42" :> Connection("ihx_2", "out2", "cp_2", "in1", "42")) @@
    ("c43" :> Connection("cp_2", "out1", "mg", "in2", "43")) @@
    ("c30" :> Connection("mg", "out1", "cc", "in1", "30")) @@
    ("c21" :> Connection("si_in", "out1", "gc", "in2", "21")) @@
    ("c22" :> Connection("gc", "out2", "si_out", "in1", "22")) @@
    ("c11" :> Connection("sou_in", "out1", "ev", "in1", "11")) @@
    ("c12" :> Connection("ev", "out1", "sou_out", "in1", "12"))

\* src/models.py, lines 618-708
models_HeatPumpParallelComp_init_simulation_set_attr ==
    << SetAttr("c32", {"h", "p"}, {}),
       SetAttr("c34", {"p", "fluid"}, {}),
       SetAttr("c37", {"p"}, {}),
       SetAttr("c38", {"h"}, {}),
       SetAttr("c39", {"h"}, {}),
       SetAttr("c42", {"h"}, {}),
       SetAttr("c21", {"T", "p", "fluid"}, {}),
       SetAttr("c22", {"T"}, {}),
       SetAttr("c11", {"T", "p", "fluid"}, {}),
       SetAttr("c12", {"T"}, {}) >>

\* src/models.py, lines 710-729
models_HeatPumpParallelComp_design_simulation_set_attr ==
    << SetAttr("c37", {}, {"p"}),
       SetAttr("c38", {"Td_bp"}, {"h"}),
       SetAttr("c39", {}, {"h"}),
       SetAttr("c42", {}, {"h"}),
       SetAttr("c32", {}, {"h"}),
       SetAttr("c35", {"Td_bp"}, {"h"}) >>

\* src/models.py, lines 837-859
models_HeatPumpIntercooling_generate_components ==
    ("gc" :> Comp("HeatExchanger", "Gas cooler")) @@
    ("ev" :> Comp("HeatExchanger", "Evaporator")) @@
    ("va_1" :> Comp("Valve", "Valve 1")) @@
    ("va_2" :> Comp("Valve", "Valve 2")) @@
    ("cp_1" :> Comp("Compressor", "Compressor 1")) @@
    ("cp_2" :> Comp("Compressor", "Compressor 2")) @@
    ("ihx" :> Comp("HeatExchanger", "Internal Heat Exchanger")) @@
    ("fl" :> Comp("DropletSeparator", "Flash Tank")) @@
    ("mg" :> Comp("Merge", "Merge")) @@
    ("cc" :> Comp("CycleCloser", "CycleCloser")) @@
    ("si_in" :> Comp("Source", "Sink in")) @@
    ("si_out" :> Comp("Sink", "Sink out")) @@
    ("sou_in" :> Comp("Source", "Source in")) @@
    ("sou_out" :> Comp("Sink", "Source out"))

\* src/models.py, lines 861-917
models_HeatPumpIntercooling_generate_connections ==
    ("c31" :> Connection("cc", "out1", "gc", "in1", "31")) @@
    ("c32" :> Connection("gc", "out1", "ihx", "in1", "32")) @@
    ("c33" :> Connection("ihx", "out1", "va_1", "in1", "33")) @@
    ("c34" :> Connection("va_1", "out1", "fl", "in1", "34")) @@
    ("c35" :> Connection("fl", "out1", "va_2", "in1", "35")) @@
    ("c36" :> Connection("va_2", "out1", "ev", "in2", "36")) @@
    ("c37" :> Connection("ev", "out2", "ihx", "in2", "37")) @@
    ("c38" :> Connection("ihx", "out2", "cp_1", "in1", "38")) @@
    ("c39" :> Connection("cp_1", "out1", "mg", "in1", "39")) @@
    ("c40" :> Connection("mg", "out1", "cp_2", "in1", "40")) @@
    ("c41" :> Connection("fl", "out2", "mg", "in2", "41")) @@
    ("c30" :> Connection("cp_2", "out1", "cc", "in1", "30")) @@
    ("c21" :> Connection("si_in", "out1", "gc", "in2", "21")) @@
    ("c22" :> Connection("gc", "out2", "si_out", "in1", "22")) @@
    ("c11" :> Connection("sou_in", "out1", "ev", "in1", "11")) @@
    ("c12" :> Connection("ev", "out1", "sou_out", "in1", "12"))

\* src/models.py, lines 919-1000
models_HeatPumpIntercooling_init_simulation_set_attr ==
    << SetAttr("c38", {"h", "p", "fluid"}, {}),
       SetAttr("c39", {"p"}, {}),
       SetAttr("c32", {"h", "p"}, {}),
       SetAttr("c37", {"h"}, {}),
       SetAttr("c21", {"T", "p", "fluid"}, {}),
       SetAttr("c22", {"T"}, {}),
       SetAttr("c11", {"T", "p", "fluid"}, {}),
       SetAttr("c12", {"T"}, {}) >>

\* src/models.py, lines 1002-1016
models_HeatPumpIntercooling_design_simulation_set_attr ==
    << SetAttr("c38", {}, {"h", "p"}),
       SetAttr("c37", {"Td_bp"}, {"p"}),
       SetAttr("c32", {}, {"h"}) >>

\* src/heatpumps/models/ihx.py, lines 17-34
ihx_HeatPumpIHX_generate_components ==
    ("gc" :> Comp("HeatExchanger", "Gas cooler")) @@
    ("ev" :> Comp("HeatExchanger", "Evaporator")) @@
    ("va" :> Comp("Valve", "Valve")) @@
    ("cp" :> Comp("Compressor", "Compressor")) @@
    ("ihx" :> Comp("HeatExchanger", "Internal Heat Exchanger")) @@
    ("cc" :> Comp("CycleCloser", "CycleCloser")) @@
    ("si_in" :> Comp("Source", "Sink in")) @@
    ("si_out" :> Comp("Sink", "Sink out")) @@
    ("sou_in" :> Comp("Source", "Source in")) @@
    ("sou_out" :> Comp("Sink", "Source out"))

\* src/heatpumps/models/ihx.py, lines 36-77
ihx_HeatPumpIHX_generate_connections ==
    ("c31" :> Connection("cc", "out1", "gc", "in1", "31")) @@
    ("c32" :> Connection("gc", "out1", "ihx", "in1", "32")) @@
    ("c33" :> Connection("ihx", "out1", "va", "in1", "33")) @@
    ("c34" :> Connection("va", "out1", "ev", "in2", "34")) @@
    ("c35" :> Connection("ev", "out2", "ihx", "in2", "35")) @@
    ("c36" :> Connection("ihx", "out2", "cp", "in1", "36")) @@
    ("c30" :> Connection("cp", "out1", "cc", "in1", "30")) @@
    ("c21" :> Connection("si_in", "out1", "gc", "in2", "21")) @@
    ("c22" :> Connection("gc", "out2", "si_out", "in1", "22")) @@
    ("c11" :> Connection("sou_in", "out1", "ev", "in1", "11")) @@
    ("c12" :> Connection("ev", "out1", "sou_out", "in1", "12"))

\* src/heatpumps/models/ihx.py, lines 79-155
ihx_HeatPumpIHX_init_simulation_set_attr ==
    << SetAttr("c36", {"h", "p", "fluid"}, {}),
       SetAttr("c32", {"h", "p"}, {}),
       SetAttr("c35", {"h"}, {}),
       SetAttr("c21", {"T", "p", "fluid"}, {}),
       SetAttr("c22", {"T"}, {}),
       SetAttr("c11", {"T", "p", "fluid"}, {}),
       SetAttr("c12", {"T"}, {}) >>

\* src/heatpumps/models/ihx.py, lines 157-172
ihx_HeatPumpIHX_design_simulation_set_attr ==
    << SetAttr("c36", {}, {"h", "p"}),
       SetAttr("c32", {}, {"h"}),
       SetAttr("c35", {"Td_bp"}, {"h"}) >>

\* src/chapter 4/heatpumps/models/parallel.py, lines 13-36
ch4_HeatPumpParallelComp_generate_components ==
    ("gc" :> Comp("HeatExchanger", "Gas cooler")) @@
    ("ev" :> Comp("HeatExchanger", "Evaporator")) @@
    ("va_1" :> Comp("Valve", "Valve 1")) @@
    ("va_2" :> Comp("Valve", "Valve 2")) @@
    ("cp_1" :> Comp("Compressor", "Compressor 1")) @@
    ("cp_2" :> Comp("Compressor", "Compressor 2")) @@
    ("ihx_1" :> Comp("HeatExchanger", "Internal Heat Exchanger 1")) @@
    ("ihx_2" :> Comp("HeatExchanger", "Internal Heat Exchanger 2")) @@
    ("fl" :> Comp("DropletSeparator", "Flash Tank")) @@
    ("mg" :> Comp("Merge", "Merge")) @@
    ("cc" :> Comp("CycleCloser", "CycleCloser")) @@
    ("si_in" :> Comp("Source", "Sink in")) @@
    ("si_out" :> Comp("Sink", "Sink out")) @@
    ("sou_in" :> Comp("Source", "Source in")) @@
    ("sou_out" :> Comp("Sink", "Source out"))

\* src/chapter 4/heatpumps/models/parallel.py, lines 38-100
ch4_HeatPumpParallelComp_generate_connections ==
    ("c31" :> Connection("cc", "out1", "gc", "in1", "31")) @@
    ("c32" :> Connection("gc", "out1", "ihx_2", "in1", "32")) @@
    ("c33" :> Connection("ihx_2", "out1", "va_1", "in1", "33")) @@
    ("c34" :> Connection("va_1", "out1", "fl", "in1", "34")) @@
    ("c35" :> Connection("fl", "out1", "ihx_1", "in1", "35")) @@
    ("c36" :> Connection("ihx_1", "out1", "va_2", "in1", "36")) @@
    ("c37" :> Connection("va_2", "out1", "ev", "in2", "37")) @@
    ("c38" :> Connection("ev", "out2", "ihx_1", "in2", "38")) @@
    ("c39" :> Connection("ihx_1", "out2", "cp_1", "in1", "39")) @@
    ("c40" :> Connection("cp_1", "out1", "mg", "in1", "40")) @@
    ("c41" :> Connection("fl", "out2", "ihx_2", "in2", "41")) @@
    ("c42" :> Connection("ihx_2", "out2", "cp_2", "in1", "42")) @@
    ("c43" :> Connection("cp_2", "out1", "mg", "in2", "43")) @@
    ("c30" :> Connection("mg", "out1", "cc", "in1", "30")) @@
    ("c21" :> Connection("si_in", "out1", "gc", "in2", "21")) @@
    ("c22" :> Connection("gc", "out2", "si_out", "in1", "22")) @@
    ("c11" :> Connection("sou_in", "out1", "ev", "in1", "11")) @@
    ("c12" :> Connection("ev", "out1", "sou_out", "in1", "12"))

\* src/chapter 4/heatpumps/models/parallel.py, lines 102-192
ch4_HeatPumpParallelComp_init_simulation_set_attr ==
    << SetAttr("c32", {"h", "p"}, {}),
       SetAttr("c34", {"p", "fluid"}, {}),
       SetAttr("c37", {"p"}, {}),
       SetAttr("c38", {"h"}, {}),
       SetAttr("c39", {"h"}, {}),
       SetAttr("c42", {"h"}, {}),
       SetAttr("c21", {"T", "p", "fluid"}, {}),
       SetAttr("c22", {"T"}, {}),
       SetAttr("c11", {"T", "p", "fluid"}, {}),
       SetAttr("c12", {"T"}, {}) >>

\* src/chapter 4/heatpumps/models/parallel.py, lines 194-211
ch4_HeatPumpParallelComp_design_simulation_set_attr ==
    << SetAttr("c37", {}, {"p"}),
       SetAttr("c38", {"Td_bp"}, {"h"}),
       SetAttr("c39", {}, {"h"}),
       SetAttr("c42", {}, {"h"}),
       SetAttr("c32", {}, {"h"}) >>

\* src/chapter 5/heatpumps/models/intercooling.py, lines 13-35
ch5_HeatPumpIntercooling_generate_components ==
    ("gc" :> Comp("HeatExchanger", "Gas cooler")) @@
    ("ev" :> Comp("HeatExchanger", "Evaporator")) @@
    ("va_1" :> Comp("Valve", "Valve 1")) @@
    ("va_2" :> Comp("Valve", "Valve 2")) @@
    ("cp_1" :> Comp("Compressor", "Compressor 1")) @@
    ("cp_2" :> Comp("Compressor", "Compressor 2")) @@
    ("ihx" :> Comp("HeatExchanger", "Internal Heat Exchanger")) @@
    ("fl" :> Comp("DropletSeparator", "Flash Tank")) @@
    ("mg" :> Comp("Merge", "Merge")) @@
    ("cc" :> Comp("CycleCloser", "CycleCloser")) @@
    ("si_in" :> Comp("Source", "Sink in")) @@
    ("si_out" :> Comp("Sink", "Sink out")) @@
    ("sou_in" :> Comp("Source", "Source in")) @@
    ("sou_out" :> Comp("Sink", "Source out"))

\* src/chapter 5/heatpumps/models/intercooling.py, lines 37-93
ch5_HeatPumpIntercooling_generate_connections ==
    ("c31" :> Connection("cc", "out1", "gc", "in1", "31")) @@
    ("c32" :> Connection("gc", "out1", "ihx", "in1", "32")) @@
    ("c33" :> Connection("ihx", "out1", "va_1", "in1", "33")) @@
    ("c34" :> Connection("va_1", "out1", "fl", "in1", "34")) @@
    ("c35" :> Connection("fl", "out1", "va_2", "in1", "35")) @@
    ("c36" :> Connection("va_2", "out1", "ev", "in2", "36")) @@
    ("c37" :> Connection("ev", "out2", "ihx", "in2", "37")) @@
    ("c38" :> Connection("ihx", "out2", "cp_1", "in1", "38")) @@
    ("c39" :> Connection("cp_1", "out1", "mg", "in1", "39")) @@
    ("c40" :> Connection("mg", "out1", "cp_2", "in1", "40")) @@
    ("c41" :> Connection("fl", "out2", "mg", "in2", "41")) @@
    ("c30" :> Connection("cp_2", "out1", "cc", "in1", "30")) @@
    ("c21" :> Connection("si_in", "out1", "gc", "in2", "21")) @@
    ("c22" :> Connection("gc", "out2", "si_out", "in1", "22")) @@
    ("c11" :> Connection("sou_in", "out1", "ev", "in1", "11")) @@
    ("c12" :> Connection("ev", "out1", "sou_out", "in1", "12"))

\* src/chapter 5/heatpumps/models/intercooling.py, lines 95-176
ch5_HeatPumpIntercooling_init_simulation_set_attr ==
    << SetAttr("c38", {"h", "p", "fluid"}, {}),
       SetAttr("c39", {"p"}, {}),
       SetAttr("c32", {"h", "p"}, {}),
       SetAttr("c37", {"h"}, {}),
       SetAttr("c21", {"T", "p", "fluid"}, {}),
       SetAttr("c22", {"T"}, {}),
       SetAttr("c11", {"T", "p", "fluid"}, {}),
       SetAttr("c12", {"T"}, {}) >>

\* src/chapter 5/heatpumps/models/intercooling.py, lines 178-192
ch5_HeatPumpIntercooling_design_simulation_set_attr ==
    << SetAttr("c38", {}, {"h", "p"}),
       SetAttr("c37", {"Td_bp"}, {"h", "p"}),
       SetAttr("c32", {}, {"h"}) >>

\* src/chapter 4/Simple_heat_pump_exergy_analysis/simple_heat_pump.py, lines 27-37
script_components ==
    ("cmp_th" :> Comp("Valve", "throttle")) @@
    ("cmp_ev" :> Comp("HeatExchanger", "evaporator")) @@
    ("cmp_cp" :> Comp("Compressor", "compressor")) @@
    ("cmp_co" :> Comp("HeatExchanger", "condenser")) @@
    ("cmp_cc" :> Comp("CycleCloser", "cycle-closer")) @@
    ("src_gh" :> Comp("Source", "ground-heat-fluid-source")) @@
    ("snk_gh" :> Comp("Sink", "ground-heat-fluid-sink")) @@
    ("src_hf" :> Comp("Source", "heating-fluid-source")) @@
    ("snk_hf" :> Comp("Sink", "heating-fluid-sink"))

\* simple_heat_pump.py, lines 40-50
script_connections ==
    ("c03" :> Connection("cmp_cc", "out1", "cmp_th", "in1", "03")) @@
    ("c04" :> Connection("cmp_th", "out1", "cmp_ev", "in2", "04")) @@
    ("c01" :> Connection("cmp_ev", "out2", "cmp_cp", "in1", "01")) @@
    ("c02" :> Connection("cmp_cp", "out1", "cmp_co", "in1", "02")) @@
    ("c02cc" :> Connection("cmp_co", "out1", "cmp_cc", "in1", "02cc")) @@
    ("c11" :> Connection("src_gh", "out1", "cmp_ev", "in1", "11")) @@
    ("c12" :> Connection("cmp_ev", "out1", "snk_gh", "in1", "12")) @@
    ("c21" :> Connection("src_hf", "out1", "cmp_co", "in2", "21")) @@
    ("c22" :> Connection("cmp_co", "out2", "snk_hf", "in1", "22"))

\* simple_heat_pump.py, line 52: heatpump.add_conns(c01, c02, c02cc, c03, c04, ...)
script_add_conns_args ==
    { script_connections[k] :
        k \in {"c01", "c02", "c02cc", "c03", "c04", "c11", "c12", "c21", "c22"} }

\* simple_heat_pump.py, lines 62-72
script_init_set_attr ==
    << SetAttr("c03", {"p", "T", "fluid"}, {}),
       SetAttr("c04", {"p"}, {}),
       SetAttr("c01", {"h"}, {}),
       SetAttr("c11", {"p", "T", "fluid"}, {}),
       SetAttr("c12", {"T"}, {}),
       SetAttr("c21", {"p", "T", "fluid"}, {}),
       SetAttr("c22", {"T"}, {}) >>

\* simple_heat_pump.py, line 99
script_design_set_attr ==
    << SetAttr("c01", {}, {"h"}) >>

\* simple_heat_pump.py, lines 75-90: motor, groundheat, heating
script_busses == <<"motor", "groundheat", "heating">>

\* every init_simulation: the three Bus objects it creates and hands to add_busses
init_simulation_busses == <<"power input", "heat input", "heat output">>

-----------------------------------------------------------------------------
(* Method resolution: the definition a call on an object of class c runs *)

generate_components_of(c) ==
    CASE c = Class(F_models, "HeatPumpSimple") -> models_HeatPumpSimple_generate_components
      [] c = Class(F_models, "HeatPumpIHX") -> models_HeatPumpIHX_generate_components
      [] c = Class(F_models, "HeatPumpParallelComp") -> models_HeatPumpParallelComp_generate_components
      [] c = Class(F_models, "HeatPumpIntercooling") -> models_HeatPumpIntercooling_generate_components
      [] c = Class(F_ihx, "HeatPumpIHX") -> ihx_HeatPumpIHX_generate_components
      [] c = Class(F_ch4_parallel, "HeatPumpParallelComp") -> ch4_HeatPumpParallelComp_generate_components
      [] c = Class(F_ch5_intercooling, "HeatPumpIntercooling") -> ch5_HeatPumpIntercooling_generate_components

generate_connections_of(c) ==
    CASE c = Class(F_models, "HeatPumpSimple") -> models_HeatPumpSimple_generate_connections
      [] c = Class(F_models, "HeatPumpIHX") -> models_HeatPumpIHX_generate_connections
      [] c = Class(F_models, "HeatPumpParallelComp") -> models_HeatPumpParallelComp_generate_connections
      [] c = Class(F_models, "HeatPumpIntercooling") -> models_HeatPumpIntercooling_generate_connections
      [] c = Class(F_ihx, "HeatPumpIHX") -> ihx_HeatPumpIHX_generate_connections
      [] c = Class(F_ch4_parallel, "HeatPumpParallelComp") -> ch4_HeatPumpParallelComp_generate_connections
      [] c = Class(F_ch5_intercooling, "HeatPumpIntercooling") -> ch5_HeatPumpIntercooling_generate_connections

init_simulation_set_attr_of(c) ==
    CASE c = Class(F_models, "HeatPumpSimple") -> models_HeatPumpSimple_init_simulation_set_attr
      [] c = Class(F_models, "HeatPumpIHX") -> models_HeatPumpIHX_init_simulation_set_attr
      [] c = Class(F_models, "HeatPumpParallelComp") -> models_HeatPumpParallelComp_init_simulation_set_attr
      [] c = Class(F_models, "HeatPumpIntercooling") -> models_HeatPumpIntercooling_init_simulation_set_attr
      [] c = Class(F_ihx, "HeatPumpIHX") -> ihx_HeatPumpIHX_init_simulation_set_attr
      [] c = Class(F_ch4_parallel, "HeatPumpParallelComp") -> ch4_HeatPumpParallelComp_init_simulation_set_attr
      [] c = Class(F_ch5_intercooling, "HeatPumpIntercooling") -> ch5_HeatPumpIntercooling_init_simulation_set_attr

design_simulation_set_attr_of(c) ==
    CASE c = Class(F_models, "HeatPumpSimple") -> models_HeatPumpSimple_design_simulation_set_attr
      [] c = Class(F_models, "HeatPumpIHX") -> models_HeatPumpIHX_design_simulation_set_attr
      [] c = Class(F_models, "HeatPumpParallelComp") -> models_HeatPumpParallelComp_design_simulation_set_attr
      [] c = Class(F_models, "HeatPumpIntercooling") -> models_HeatPumpIntercooling_design_simulation_set_attr
      [] c = Class(F_ihx, "HeatPumpIHX") -> ihx_HeatPumpIHX_design_simulation_set_attr
      [] c = Class(F_ch4_parallel, "HeatPumpParallelComp") -> ch4_HeatPumpParallelComp_design_simulation_set_attr
      [] c = Class(F_ch5_intercooling, "HeatPumpIntercooling") -> ch5_HeatPumpIntercooling_design_simulation_set_attr

\* [conn for conn in self.conns]: iterating a dict yields its keys
conns_iter(d) == {PyStr(k) : k \in DOMAIN d}

\* [conn for conn in self.conns.values()]
conns_values(d) == {d[k] : k \in DOMAIN d}

\* the arguments of the add_conns call that ends generate_connections
add_conns_args(c, d) ==
    IF c.file = F_models THEN conns_iter(d) ELSE conns_values(d)

-----------------------------------------------------------------------------
(* Connection attributes and the network *)

EmptyDict == [k \in {} |-> k]

\* conn.set_attr(**kwargs): a keyword with a value specifies the attribute,
\* a keyword with None unsets it
set_attr(a, call) ==
    IF call.conn \in DOMAIN a
    THEN [a EXCEPT ![call.conn] = (@ \cup call.given) \ call.none]
    ELSE a

RECURSIVE set_attrs(_, _)
set_attrs(a, cs) ==
    IF cs = <<>> THEN a ELSE set_attrs(set_attr(a, Head(cs)), Tail(cs))

\* the connections whose enthalpy is specified
h_specified(a) == {k \in DOMAIN a : "h" \in a[k]}

\* what one nw.solve('design') sees
Solve(caller, a, nc, nb) ==
    [caller |-> caller, h_specified |-> h_specified(a),
     nw_conns |-> nc, nw_busses |-> nb]

-----------------------------------------------------------------------------
(* HeatPumpBase.run_model, one action per method it calls *)

run_model ==
    <<"generate_components", "generate_connections",
      "init_simulation", "design_simulation">>

\* run_model is about to call method m
Calls(m) ==
    /\ hp \in Classes
    /\ pc < Len(run_model)
    /\ run_model[pc + 1] = m
    /\ pc' = pc + 1
    /\ calls' = Append(calls, m)

generate_components ==
    /\ Calls("generate_components")
    /\ comps' = generate_components_of(hp)
    /\ UNCHANGED <<hp, conns, busses, nw_conns, nw_busses, attrs, solves>>
    /\ UNCHANGED <<swvars, mp, orch, sens>>

generate_connections ==
    /\ Calls("generate_connections")
    /\ conns' = generate_connections_of(hp)
    /\ nw_conns' = nw_conns \cup add_conns_args(hp, conns')
    /\ attrs' = [k \in DOMAIN conns' |-> {}]
    /\ UNCHANGED <<hp, comps, busses, nw_busses, solves>>
    /\ UNCHANGED <<swvars, mp, orch, sens>>

init_simulation ==
    /\ Calls("init_simulation")
    /\ attrs' = set_attrs(attrs, init_simulation_set_attr_of(hp))
    /\ busses' = init_simulation_busses
    /\ nw_busses' = nw_busses \cup Range(busses')
    /\ solves' = Append(solves, Solve("init_simulation", attrs', nw_conns, nw_busses'))
    /\ UNCHANGED <<hp, comps, conns, nw_conns>>
    /\ UNCHANGED <<swvars, mp, orch, sens>>

design_simulation ==
    /\ Calls("design_simulation")
    /\ attrs' = set_attrs(attrs, design_simulation_set_attr_of(hp))
    /\ solves' = Append(solves, Solve("design_simulation", attrs', nw_conns, nw_busses))
    /\ UNCHANGED <<hp, comps, conns, busses, nw_conns, nw_busses>>
    /\ UNCHANGED <<swvars, mp, orch, sens>>

(* simple_heat_pump.py: the same stages as module-level statements *)

\* lines 27-52
script_topology ==
    /\ hp = Script /\ pc = 0
    /\ comps' = script_components
    /\ conns' = script_connections
    /\ nw_conns' = nw_conns \cup script_add_conns_args
    /\ attrs' = [k \in DOMAIN conns' |-> {}]
    /\ pc' = 2
    /\ UNCHANGED <<hp, calls, busses, nw_busses, solves>>
    /\ UNCHANGED <<swvars, mp, orch, sens>>

\* lines 57-94
script_init ==
    /\ hp = Script /\ pc = 2
    /\ attrs' = set_attrs(attrs, script_init_set_attr)
    /\ busses' = script_busses
    /\ nw_busses' = nw_busses \cup Range(busses')
    /\ solves' = Append(solves, Solve("script init", attrs', nw_conns, nw_busses'))
    /\ pc' = 3
    /\ UNCHANGED <<hp, calls, comps, conns, nw_conns>>
    /\ UNCHANGED <<swvars, mp, orch, sens>>

\* lines 99-103
script_design ==
    /\ hp = Script /\ pc = 3
    /\ attrs' = set_attrs(attrs, script_design_set_attr)
    /\ solves' = Append(solves, Solve("script design", attrs', nw_conns, nw_busses))
    /\ pc' = 4
    /\ UNCHANGED <<hp, calls, comps, conns, busses, nw_conns, nw_busses>>
    /\ UNCHANGED <<swvars, mp, orch, sens>>

-----------------------------------------------------------------------------
(* HeatPumpBase.run_p_high_analysis (chapter 5) *)

\* bounds of the sweep's arguments and the fixed-point resolution of COP and epsilon
MaxP == 3
MaxStep == 2
Scale == 100

\* the classes whose base class is the chapter 5 HeatPumpBase
has_run_p_high_analysis(c) == c.file = F_ch5_intercooling

skip_comps == {"Source in", "Source out", "Sink in", "Sink out", "CycleCloser"}

\* range with the stop value included (an off-by-one of the loop bound)
RECURSIVE range_inclusive(_, _, _)
range_inclusive(start, stop, step) ==
    IF start > stop THEN <<>>
    ELSE <<start>> \o range_inclusive(start + step, stop, step)

\* Python's range(start, stop, step) for step >= 1, as a list
RECURSIVE range(_, _, _)
range(start, stop, step) ==
    IF start >= stop THEN <<>>
    ELSE <<start>> \o range(start + step, stop, step)

\* pd.DataFrame(index=p_high_range, columns=['COP', 'epsilon']): every cell NaN
results_DataFrame(index) ==
    [index |-> index, columns |-> <<"COP", "epsilon">>,
     loc |-> [p \in Range(index) |-> [COP |-> NaN, epsilon |-> NaN]]]

\* pd.DataFrame(index=p_high_range): no column yet; loc[p] is the set of
\* columns of row p that hold a value
E_Ds_DataFrame(index) ==
    [index |-> index, columns |-> {}, loc |-> [p \in Range(index) |-> {}]]

\* perform_exergy_analysis: the busses it looks up in self.busses
exergy_E_F == <<"power input", "heat input">>
exergy_E_P == <<"heat output">>

\* what the solver and the exergy analysis can produce at one pressure
COPVals == {Scale - 1, Scale, 10 * Scale, 10 * Scale + 1}
EpsVals == {0 - 1, 0, Scale - 1, Scale}

Outcomes ==
    {[kind |-> "solve raises", cop |-> 0, eps |-> 0],
     [kind |-> "analysis raises", cop |-> 0, eps |-> 0]}
    \cup {[kind |-> "ok", cop |-> c, eps |-> e] : c \in COPVals, e \in EpsVals}

cop_false(cop) == cop > 10 * Scale \/ cop < 1 * Scale

\* the check with an epsilon of exactly 1 let through
epsilon_false_inclusive(eps) == eps > 1 * Scale \/ eps < 0

epsilon_false(eps) == eps >= 1 * Scale \/ eps < 0

\* the body of the try block reached its end: neither the solve nor the
\* exergy analysis (which needs its three busses) raised
try_completes(o, b) ==
    /\ o.kind = "ok"
    /\ Range(exergy_E_F) \cup Range(exergy_E_P) \subseteq Range(b)

\* results after the loop body for p_high
step_results(res, p_high, o, b) ==
    IF try_completes(o, b)
    THEN [res EXCEPT !.loc[p_high] =
            [COP |-> IF cop_false(o.cop) THEN NaN ELSE Num(o.cop),
             epsilon |-> IF epsilon_false(o.eps) THEN NaN ELSE Num(o.eps)]]
    ELSE res

\* E_Ds filled whatever the check of epsilon says
step_E_Ds_unchecked(eds, p_high, o, b, cs) ==
    IF try_completes(o, b)
    THEN LET cols == ({cs[k].label : k \in DOMAIN cs} \ skip_comps) \cup {"E_D_tot"}
         IN  [eds EXCEPT !.columns = @ \cup cols, !.loc[p_high] = @ \cup cols]
    ELSE eds

\* E_Ds after the loop body for p_high
step_E_Ds(eds, p_high, o, b, cs) ==
    IF try_completes(o, b) /\ ~epsilon_false(o.eps)
    THEN LET cols == ({cs[k].label : k \in DOMAIN cs} \ skip_comps) \cup {"E_D_tot"}
         IN  [eds EXCEPT !.columns = @ \cup cols, !.loc[p_high] = @ \cup cols]
    ELSE eds

\* the loop without its try/except: an exception ends the sweep
step_next_abort(i, o) ==
    IF o.kind = "ok" THEN i + 1 ELSE Len(p_high_range) + 1

\* the index of the next loop iteration: an exception is caught inside the
\* loop body, so the loop goes on either way
step_next(i, o) == i + 1

\* one call of the loop body: its pressure, the value conns['c32'].p holds when
\* it is made, and whether it raised
Ev(op, p, x, r) == [op |-> op, p |-> p, c32_p |-> x, raised |-> r]

\* a loop body that analyses before it solves
step_log_analysis_first(p_high, o, x, b) ==
    <<Ev("set_attr", p_high, x, FALSE),
      Ev("perform_exergy_analysis", p_high, x, ~try_completes(o, b)),
      Ev("solve", p_high, x, o.kind = "solve raises")>>

\* the calls of one loop body, in order
step_log(p_high, o, x, b) ==
    <<Ev("set_attr", p_high, x, FALSE),
      Ev("solve", p_high, x, o.kind = "solve raises")>>
    \o (IF o.kind = "solve raises" THEN <<>>
        ELSE <<Ev("perform_exergy_analysis", p_high, x, ~try_completes(o, b))>>)

\* a log entry is a network solve of the sweep
IsSolve(e) == e.op = "solve"

\* one call of perform_exergy_analysis (or the ExergyAnalysis of the script):
\* who called, the bus labels given as E_F and E_P, the number of network
\* solves made before it, the exception it raised, self.epsilon after it
ExergyAnalysis(caller, p, E_F, E_P, n_solves, raised, eps) ==
    [caller |-> caller, p |-> p, E_F |-> E_F, E_P |-> E_P,
     n_solves |-> n_solves, raised |-> raised, epsilon |-> eps]

\* perform_exergy_analysis on an object with the busses b: the lookup of a bus
\* that is not in self.busses raises KeyError before ExergyAnalysis is built
exergy_raises(o, b) ==
    IF ~(Range(exergy_E_F) \cup Range(exergy_E_P) \subseteq Range(b))
    THEN "KeyError"
    ELSE IF o.kind = "analysis raises" THEN "Exception"
    ELSE "none"

\* the exergy analysis of one loop body: none when the solve raised
step_eans(p_high, o, b, eps, n_solves) ==
    IF o.kind = "solve raises" THEN <<>>
    ELSE <<ExergyAnalysis("run_p_high_analysis", p_high, exergy_E_F, exergy_E_P,
                          n_solves, exergy_raises(o, b), eps)>>

\* lines 139-146
run_p_high_analysis(p_min, p_max, stepwidth) ==
    /\ hp \in Classes /\ has_run_p_high_analysis(hp)
    /\ pc = Len(run_model)
    /\ sw_pc = "idle"
    /\ sw_args' = [p_min |-> p_min, p_max |-> p_max, stepwidth |-> stepwidth]
    /\ p_high_range' = range(p_min, p_max, stepwidth)
    /\ results' = results_DataFrame(p_high_range')
    /\ E_Ds' = E_Ds_DataFrame(p_high_range')
    /\ sw_i' = 1
    /\ sw_pc' = "loop"
    /\ UNCHANGED <<c32_p, sw_log, epsilon, eans>>
    /\ UNCHANGED <<hpvars, mp, orch, sens>>

\* lines 148-206: one iteration of the loop
run_p_high_analysis_step(o) ==
    /\ sw_pc = "loop"
    /\ sw_i <= Len(p_high_range)
    /\ LET p_high == p_high_range[sw_i]
       IN  /\ c32_p' = p_high
           /\ attrs' = set_attr(attrs, SetAttr("c32", {"p"}, {}))
           /\ sw_log' = sw_log \o step_log(p_high, o, c32_p', busses)
           /\ results' = step_results(results, p_high, o, busses)
           /\ E_Ds' = step_E_Ds(E_Ds, p_high, o, busses, comps)
           /\ epsilon' = IF try_completes(o, busses) THEN Num(o.eps) ELSE epsilon
           /\ eans' = eans \o step_eans(p_high, o, busses, epsilon',
                                         Len(solves) + Len(SelectSeq(sw_log', IsSolve)))
           /\ sw_i' = step_next(sw_i, o)
    /\ UNCHANGED <<sw_pc, sw_args, p_high_range>>
    /\ UNCHANGED <<hp, pc, calls, comps, conns, busses, nw_conns, nw_busses, solves>>
    /\ UNCHANGED <<mp, orch, sens>>

\* line 208
run_p_high_analysis_return ==
    /\ sw_pc = "loop"
    /\ sw_i > Len(p_high_range)
    /\ sw_pc' = "returned"
    /\ UNCHANGED <<sw_args, p_high_range, sw_i, results, E_Ds, c32_p, sw_log, epsilon, eans>>
    /\ UNCHANGED <<hpvars, mp, orch, sens>>

\* base.py lines 78-91: perform_exergy_analysis called on the object itself,
\* at any point of run_model (once, and not during a sweep)
perform_exergy_analysis(o) ==
    /\ hp \in Classes /\ has_run_p_high_analysis(hp)
    /\ sw_pc = "idle"
    /\ eans = <<>>
    /\ o.kind # "solve raises"
    /\ epsilon' = IF exergy_raises(o, busses) = "none" THEN Num(o.eps) ELSE epsilon
    /\ eans' = Append(eans,
                      ExergyAnalysis("caller", 0, exergy_E_F, exergy_E_P,
                                     Len(solves), exergy_raises(o, busses),
                                     epsilon'))
    /\ UNCHANGED <<sw_pc, sw_args, p_high_range, sw_i, results, E_Ds, c32_p, sw_log>>
    /\ UNCHANGED <<hpvars, mp, orch, sens>>

\* simple_heat_pump.py lines 110-112: ExergyAnalysis(E_F=[motor, groundheat],
\* E_P=[heating]) and analyse, after the second solve
script_exergy ==
    /\ hp = Script /\ pc = 4
    /\ pc' = 5
    /\ eans' = Append(eans,
                      ExergyAnalysis("script", 0, SubSeq(script_busses, 1, 2),
                                     SubSeq(script_busses, 3, 3), Len(solves),
                                     "none", epsilon))
    /\ UNCHANGED <<hp, calls, comps, conns, busses, nw_conns, nw_busses, attrs, solves>>
    /\ UNCHANGED <<sw_pc, sw_args, p_high_range, sw_i, results, E_Ds, c32_p, sw_log, epsilon>>
    /\ UNCHANGED <<mp, orch, sens>>

-----------------------------------------------------------------------------
(* Specification of one heat pump object *)

NoArgs == [p_min |-> 0, p_max |-> 0, stepwidth |-> 0]

InitHP ==
    /\ pc = 0
    /\ calls = <<>>
    /\ comps = EmptyDict
    /\ conns = EmptyDict
    /\ busses = <<>>
    /\ nw_conns = {}
    /\ nw_busses = {}
    /\ attrs = EmptyDict
    /\ solves = <<>>

InitSweep ==
    /\ sw_pc = "idle"
    /\ sw_args = NoArgs
    /\ p_high_range = <<>>
    /\ sw_i = 0
    /\ results = results_DataFrame(<<>>)
    /\ E_Ds = E_Ds_DataFrame(<<>>)
    /\ c32_p = 0
    /\ sw_log = <<>>
    /\ epsilon = NaN
    /\ eans = <<>>

MpIdle == [pc |-> "idle"]
OrchIdle == [pc |-> "idle"]
SensIdle == [pc |-> "idle"]

Init ==
    /\ hp \in Classes \cup {Script}
    /\ InitHP
    /\ InitSweep
    /\ mp = MpIdle
    /\ orch = OrchIdle
    /\ sens = SensIdle

Next ==
    \/ generate_components
    \/ generate_connections
    \/ init_simulation
    \/ design_simulation
    \/ script_topology
    \/ script_init
    \/ script_design
    \/ \E p_min \in 1..MaxP, p_max \in 1..(MaxP + 1), stepwidth \in 1..MaxStep :
          run_p_high_analysis(p_min, p_max, stepwidth)
    \/ \E o \in Outcomes : run_p_high_analysis_step(o)
    \/ run_p_high_analysis_return

Spec == Init /\ [][Next]_vars

\* the heat pump object with perform_exergy_analysis callable from outside,
\* and the script up to its exergy analysis; the sweep starts at pressure 1
\* with stepwidth 1 and draws from four outcomes per pressure
ExergyOutcomes ==
    {o \in Outcomes : o.kind = "ok" => (o.cop = Scale /\ o.eps \in {0 - 1, Scale - 1})}

InitExergy ==
    /\ hp \in {c \in Classes : has_run_p_high_analysis(c)} \cup {Script}
    /\ InitHP
    /\ InitSweep
    /\ mp = MpIdle
    /\ orch = OrchIdle
    /\ sens = SensIdle

NextExergy ==
    \/ generate_components
    \/ generate_connections
    \/ init_simulation
    \/ design_simulation
    \/ script_topology
    \/ script_init
    \/ script_design
    \/ script_exergy
    \/ \E o \in ExergyOutcomes : perform_exergy_analysis(o)
    \/ \E p_max \in 1..(MaxP + 1) : run_p_high_analysis(1, p_max, 1)
    \/ \E o \in ExergyOutcomes : run_p_high_analysis_step(o)
    \/ run_p_high_analysis_return

SpecExergy == InitExergy /\ [][NextExergy]_vars

-----------------------------------------------------------------------------
(* run.py: multiplot_p_high_analysis_hp and multiplot_p_high_analysis_refrig *)

\* bounds of the input directory tree: directories walked, files per directory
MaxDirs == 2
MaxFiles == 10

\* colors.values(): the nine plot colours, in dict order
colors ==
    <<"#00395B", "#B54036", "#74ADC0", "#EC6707", "#BFBFBF",
      "dimgrey", "lightgrey", "slategrey", "#A9A9A9">>

\* Python's zip(a, b) as a list: as many pairs as the shorter argument has
zip(a, b) ==
    [i \in 1..(IF Len(a) < Len(b) THEN Len(a) ELSE Len(b)) |-> <<a[i], b[i]>>]

\* the topology types the drivers construct a heat pump for
HPTypes ==
    {"HeatPumpSimple", "HeatPumpIHX", "HeatPumpParallelComp",
     "HeatPumpIntercooling"}

\* str.upper() on the refrigerant names that occur
upper(s) ==
    CASE s = "r600" -> "R600"
      [] s = "R1233zd(E)" -> "R1233ZD(E)"
      [] s = "r717" -> "R717"
      [] OTHER -> s

\* the content of one parameter file (the keys the drivers use)
Params(type, refrig, p_high_min, p_high_max, p_amb) ==
    [setup |-> [type |-> type, refrig |-> refrig],
     sensitivity |-> [p_high_min |-> p_high_min, p_high_max |-> p_high_max],
     ambient |-> [p |-> p_amb]]

\* params['ambient']['p'] = 1.013, then json.dump to the same path
with_ambient_p(params) == [params EXCEPT !.ambient.p = "1.013"]

\* the input trees: files of a directory repeat a cycle of types and a cycle
\* of refrigerants
TypeCycles ==
    {<<"HeatPumpSimple">>,
     <<"HeatPumpIHX", "HeatPumpSimple">>,
     <<"HeatPumpIntercooling", "HeatPumpParallelComp", "HeatPumpIHX">>}
RefrigCycles ==
    {<<"R600">>,
     <<"R1233zd(E)", "R600">>,
     <<"R717", "r600", "R1233zd(E)">>}
FileCounts == {0, 1, 2, Len(colors), MaxFiles}
Cyc(s, k) == s[((k - 1) % Len(s)) + 1]
InputFile(tc, rc, d, k) ==
    Params(Cyc(tc, k), Cyc(rc, k + d - 1), 1 + (k % 2), 3 + (d % 2), "1.0")
InputTrees ==
    {[d \in 1..n |-> [k \in 1..cnt[d] |-> InputFile(tc, rc, d, k)]] :
        n \in 1..MaxDirs, cnt \in [1..MaxDirs -> FileCounts],
        tc \in TypeCycles, rc \in RefrigCycles}

\* os.walk(inputpath): the files of the tree as <<directory, file>>
walk_files(tree) ==
    UNION {{<<d, f>> : f \in 1..Len(tree[d])} : d \in 1..Len(tree)}

\* the file list the inner loop iterates: zip(files, colors.values()) in
\* multiplot_p_high_analysis_hp, files in multiplot_p_high_analysis_refrig
loop_files(fn, files) ==
    IF fn = "hp" THEN zip([i \in 1..Len(files) |-> i], colors)
    ELSE [i \in 1..Len(files) |-> <<i, "">>]

\* the filter that decides whether a file is simulated
file_matches(fn, arg, params) ==
    IF fn = "hp" THEN arg = params.setup.type
    ELSE upper(arg) = upper(params.setup.refrig)

\* hp.run_model() and hp.run_p_high_analysis(p_high_min, p_high_max, stepwidth=1)
simulate(path, params) ==
    [file |-> path, cls |-> params.setup.type, params |-> params,
     calls |-> <<[op |-> "run_model"],
                 [op |-> "run_p_high_analysis",
                  p_min |-> params.sensitivity.p_high_min,
                  p_max |-> params.sensitivity.p_high_max,
                  stepwidth |-> 1]>>]

\* res of run_p_high_analysis: indexed by the swept pressures
simulate_res(params) ==
    results_DataFrame(range(params.sensitivity.p_high_min,
                            params.sensitivity.p_high_max, 1))

\* the exception ax.plot(res[result], color=..., label=...) raises while its
\* arguments are evaluated, left to right ("none": it plots)
plot_raises(fn, res, result, color_count) ==
    IF result \notin Range(res.columns) THEN "KeyError"
    ELSE IF fn = "refrig" /\ color_count + 1 > Len(colors) THEN "IndexError"
    ELSE "none"

\* the curve ax.plot draws
curve(fn, path, params, res, result, c, color_count) ==
    [file |-> path, x |-> res.index, column |-> result,
     color |-> IF fn = "hp" THEN c ELSE colors[color_count + 1],
     label |-> IF fn = "hp" THEN params.setup.refrig ELSE params.setup.type]

MpStart(tree) ==
    [pc |-> "idle", fn |-> "", arg |-> "", result |-> "", tree |-> tree,
     d |-> 0, f |-> 0, opened |-> <<>>, simulated |-> <<>>, curves |-> <<>>,
     color_count |-> 0, exc |-> "none"]

multiplot_p_high_analysis_hp(hptype, result) ==
    /\ mp.pc = "idle"
    /\ mp' = [mp EXCEPT !.pc = "loop", !.fn = "hp", !.arg = hptype,
                        !.result = result, !.d = 1, !.f = 1]
    /\ UNCHANGED <<hpvars, swvars, orch, sens>>

multiplot_p_high_analysis_refrig(refrig, result) ==
    /\ mp.pc = "idle"
    /\ mp' = [mp EXCEPT !.pc = "loop", !.fn = "refrig", !.arg = refrig,
                        !.result = result, !.d = 1, !.f = 1]
    /\ UNCHANGED <<hpvars, swvars, orch, sens>>

\* the loop is inside directory d at a file the inner loop still iterates
InFile ==
    /\ mp.pc = "loop"
    /\ mp.d <= Len(mp.tree)
    /\ mp.f <= Len(loop_files(mp.fn, mp.tree[mp.d]))

\* one iteration that ends at `continue`: the file is read and written back
multiplot_continue ==
    /\ InFile
    /\ LET params == with_ambient_p(mp.tree[mp.d][mp.f])
       IN  /\ ~file_matches(mp.fn, mp.arg, params)
           /\ mp' = [mp EXCEPT !.tree[mp.d][mp.f] = params,
                               !.opened = Append(@, <<mp.d, mp.f>>),
                               !.f = @ + 1]
    /\ UNCHANGED <<hpvars, swvars, orch, sens>>

\* one iteration that simulates the file and plots its curve
multiplot_plot ==
    /\ InFile
    /\ LET params == with_ambient_p(mp.tree[mp.d][mp.f])
           path == <<mp.d, mp.f>>
           res == simulate_res(params)
           c == loop_files(mp.fn, mp.tree[mp.d])[mp.f][2]
       IN  /\ file_matches(mp.fn, mp.arg, params)
           /\ plot_raises(mp.fn, res, mp.result, mp.color_count) = "none"
           /\ mp' = [mp EXCEPT
                  !.tree[mp.d][mp.f] = params,
                  !.opened = Append(@, path),
                  !.simulated = Append(@, simulate(path, params)),
                  !.curves = Append(@, curve(mp.fn, path, params, res,
                                             mp.result, c, mp.color_count)),
                  !.color_count = IF mp.fn = "refrig" THEN @ + 1 ELSE @,
                  !.f = @ + 1]
    /\ UNCHANGED <<hpvars, swvars, orch, sens>>

\* one iteration that simulates the file and then raises inside ax.plot(...)
multiplot_plot_raises ==
    /\ InFile
    /\ LET params == with_ambient_p(mp.tree[mp.d][mp.f])
           path == <<mp.d, mp.f>>
           res == simulate_res(params)
           exc == plot_raises(mp.fn, res, mp.result, mp.color_count)
       IN  /\ file_matches(mp.fn, mp.arg, params)
           /\ exc # "none"
           /\ mp' = [mp EXCEPT
                  !.tree[mp.d][mp.f] = params,
                  !.opened = Append(@, path),
                  !.simulated = Append(@, simulate(path, params)),
                  !.pc = "raised",
                  !.exc = exc]
    /\ UNCHANGED <<hpvars, swvars, orch, sens>>

\* the inner loop is exhausted: os.walk yields the next directory
multiplot_next_dir ==
    /\ mp.pc = "loop"
    /\ mp.d <= Len(mp.tree)
    /\ mp.f > Len(loop_files(mp.fn, mp.tree[mp.d]))
    /\ mp' = [mp EXCEPT !.d = @ + 1, !.f = 1]
    /\ UNCHANGED <<hpvars, swvars, orch, sens>>

\* after the walk: the check of `result`, then the figure is returned
multiplot_result_check ==
    /\ mp.pc = "loop"
    /\ mp.d > Len(mp.tree)
    /\ mp' = IF mp.result \in {"COP", "epsilon"}
             THEN [mp EXCEPT !.pc = "returned"]
             ELSE [mp EXCEPT !.pc = "raised", !.exc = "ValueError"]
    /\ UNCHANGED <<hpvars, swvars, orch, sens>>

\* the arguments the drivers are called with
HPTypeArgs == HPTypes
RefrigArgs == {"R600", "r600", "R1233zd(E)", "R717"}
ResultArgs == {"COP", "epsilon", "E_D"}

InitPlot ==
    /\ hp = Script
    /\ InitHP
    /\ InitSweep
    /\ mp \in {MpStart(t) : t \in InputTrees}
    /\ orch = OrchIdle
    /\ sens = SensIdle

NextPlot ==
    \/ \E hptype \in HPTypeArgs, result \in ResultArgs :
          multiplot_p_high_analysis_hp(hptype, result)
    \/ \E refrig \in RefrigArgs, result \in ResultArgs :
          multiplot_p_high_analysis_refrig(refrig, result)
    \/ multiplot_continue
    \/ multiplot_plot
    \/ multiplot_plot_raises
    \/ multiplot_next_dir
    \/ multiplot_result_check

SpecPlot == InitPlot /\ [][NextPlot]_vars

-----------------------------------------------------------------------------
(* heatpumps/orchestrate.py: program_opt, program_sensitivity *)

\* a dict object; a path: absolute or relative, and its components
PyDict(items) == [type |-> "dict", items |-> items]
Path(abs, parts) == [abs |-> abs, parts |-> parts]

\* os.path.join(a, b): an absolute b discards a
join(a, b) == IF b.abs THEN b ELSE Path(a.abs, a.parts \o b.parts)

\* d[k] = v on a dict: the key is added or overwritten
setitem(d, k, v) ==
    PyDict([x \in DOMAIN d.items \cup {k} |-> IF x = k THEN v ELSE d.items[x]])

\* the keys of a dict in iteration order
KeyOrder == <<"model", "opt", "scenario", "path">>
InDict(d, k) == k \in DOMAIN d.items
keys(d) == SelectSeq(KeyOrder, LAMBDA k : InDict(d, k))

model_lookup ==
    [m \in {"HeatPumpSimple", "HeatPumpIHX", "HeatPumpIntercooling",
            "HeatPumpParallelComp"} |-> [cls |-> m]]

\* the scenario.json files: any subset of the keys the programs touch
OptValue ==
    [num_ind |-> 2, num_gen |-> 1, boundary_conditions |-> "bc",
     variables |-> "var", constraints |-> "con", objective |-> "obj"]
ScenarioValue(k, m) ==
    CASE k = "model" -> PyStr(m)
      [] k = "opt" -> PyDict(OptValue)
      [] k = "scenario" -> PyStr("base")
      [] k = "path" -> Path(TRUE, <<"old", "place">>)
ScenarioFiles ==
    {PyDict([k \in ks |-> ScenarioValue(k, m)]) :
        ks \in SUBSET Range(KeyOrder), m \in {"HeatPumpSimple", "HeatPumpIHX"}}
NoFile == [type |-> "absent"]

\* the scenario directories: the entries of the directory and, when there
\* is one, the content of its scenario.json
OtherEntries == {"notes.txt", "optimization_result.csv"}
ScenarioDirs ==
    {[entries |-> e, scenario_json |-> NoFile] : e \in SUBSET OtherEntries}
    \cup {[entries |-> e \cup {"scenario.json"}, scenario_json |-> c] :
            e \in SUBSET OtherEntries, c \in ScenarioFiles}
Cwds == {Path(TRUE, <<"home", "user">>), Path(TRUE, <<"work">>)}
ScenarioPaths ==
    {Path(FALSE, <<"scenarios", "a">>), Path(FALSE, <<"b">>),
     Path(TRUE, <<"data", "b">>)}

get_scenario_dir(cwd, scenariopath) == join(cwd, scenariopath)

\* a reader that keeps a "path" the file already has (dict.setdefault)
read_scenario_information_setdefault(dir, basedir) ==
    IF "scenario.json" \notin dir.entries
    THEN [raised |-> "ValueError", value |-> NoFile, opened |-> <<>>]
    ELSE [raised |-> "none",
          value |-> IF InDict(dir.scenario_json, "path") THEN dir.scenario_json
                    ELSE setitem(dir.scenario_json, "path", basedir),
          opened |-> <<join(basedir, Path(FALSE, <<"scenario.json">>))>>]

\* read_scenario_information(basedir) in the directory dir: the exception
\* raised ("none": it returns), the value returned, the files opened
read_scenario_information(dir, basedir) ==
    IF "scenario.json" \notin dir.entries
    THEN [raised |-> "ValueError", value |-> NoFile, opened |-> <<>>]
    ELSE [raised |-> "none",
          value |-> setitem(dir.scenario_json, "path", basedir),
          opened |-> <<join(basedir, Path(FALSE, <<"scenario.json">>))>>]

\* create_problem(scenario_data): KeyError on a missing "opt" or "model"
create_problem(scenario_data) ==
    IF ~InDict(scenario_data, "opt") \/ ~InDict(scenario_data, "model")
    THEN [raised |-> "KeyError"]
    ELSE [raised |-> "none",
          plant |-> [cls |-> model_lookup[scenario_data.items["model"].value].cls,
                     params |-> scenario_data,
                     set_parameters |->
                         scenario_data.items["opt"].items.boundary_conditions],
          variables |-> scenario_data.items["opt"].items.variables,
          constraints |-> scenario_data.items["opt"].items.constraints,
          objective |-> scenario_data.items["opt"].items.objective]

\* a, b = value: unpacking iterates the value; a dict yields its keys
unpack2(value) ==
    IF Len(keys(value)) # 2
    THEN [raised |-> "ValueError", value |-> <<>>]
    ELSE [raised |-> "none",
          value |-> <<PyStr(keys(value)[1]), PyStr(keys(value)[2])>>]

\* obj[k] = v: a str does not support item assignment
setitem_raises(obj) == IF obj.type = "dict" THEN "none" ELSE "TypeError"

OrchStart(cwd, dir) ==
    [pc |-> "idle", program |-> "", cwd |-> cwd, dir |-> dir,
     basedir |-> Path(FALSE, <<>>), read |-> NoFile, scenario_data |-> NoFile,
     create_problem_args |-> <<>>, problem |-> NoFile, to_csv |-> <<>>,
     exc |-> "none"]

\* lines 29-30 and 45-46 (right-hand side): the directory and the scenario
program_start(program, scenariopath) ==
    /\ orch.pc = "idle"
    /\ LET basedir == get_scenario_dir(orch.cwd, scenariopath)
           r == read_scenario_information(orch.dir, basedir)
       IN  orch' = [orch EXCEPT
                  !.program = program,
                  !.basedir = basedir,
                  !.read = r,
                  !.pc = IF r.raised = "none" THEN "read" ELSE "raised",
                  !.exc = r.raised]
    /\ UNCHANGED <<hpvars, swvars, mp, sens>>

program_opt(scenariopath) == program_start("program_opt", scenariopath)

program_sensitivity(scenariopath) ==
    program_start("program_sensitivity", scenariopath)

\* program_opt, lines 30-33: the key "scenario", then create_problem
program_opt_create_problem ==
    /\ orch.pc = "read"
    /\ orch.program = "program_opt"
    /\ LET scenario_data ==
               setitem(orch.read.value, "scenario", PyStr("optimization"))
           optimize == create_problem(scenario_data)
       IN  orch' = [orch EXCEPT
                  !.scenario_data = scenario_data,
                  !.create_problem_args = Append(@, <<scenario_data>>),
                  !.problem = optimize,
                  !.pc = IF optimize.raised = "none" THEN "created"
                         ELSE "raised",
                  !.exc = optimize.raised]
    /\ UNCHANGED <<hpvars, swvars, mp, sens>>

\* program_opt, lines 35-41: the optimisation run (external, taken to
\* return) and the result table
program_opt_to_csv ==
    /\ orch.pc = "created"
    /\ orch.program = "program_opt"
    /\ orch' = [orch EXCEPT
           !.to_csv = Append(@, join(orch.basedir,
                                     Path(FALSE, <<"optimization_result.csv">>))),
           !.pc = "done"]
    /\ UNCHANGED <<hpvars, swvars, mp, sens>>

\* program_sensitivity, lines 46-53: the unpacking of the returned dict, the
\* key "scenario", create_problem with two arguments, the result table
program_sensitivity_rest ==
    /\ orch.pc = "read"
    /\ orch.program = "program_sensitivity"
    /\ LET u == unpack2(orch.read.value)
       IN  IF u.raised # "none"
           THEN orch' = [orch EXCEPT !.pc = "raised", !.exc = u.raised]
           ELSE IF setitem_raises(u.value[1]) # "none"
           THEN orch' = [orch EXCEPT !.scenario_data = u.value[1],
                                     !.pc = "raised",
                                     !.exc = setitem_raises(u.value[1])]
           \* create_problem takes one positional argument
           ELSE orch' = [orch EXCEPT
                      !.scenario_data =
                          setitem(u.value[1], "scenario", PyStr("sensitivity")),
                      !.create_problem_args = Append(@, <<u.value[1], u.value[2]>>),
                      !.pc = "raised",
                      !.exc = "TypeError"]
    /\ UNCHANGED <<hpvars, swvars, mp, sens>>

InitOrch ==
    /\ hp = Script
    /\ InitHP
    /\ InitSweep
    /\ mp = MpIdle
    /\ orch \in {OrchStart(cwd, dir) : cwd \in Cwds, dir \in ScenarioDirs}
    /\ sens = SensIdle

NextOrch ==
    \/ \E scenariopath \in ScenarioPaths : program_opt(scenariopath)
    \/ \E scenariopath \in ScenarioPaths : program_sensitivity(scenariopath)
    \/ program_opt_create_problem
    \/ program_opt_to_csv
    \/ program_sensitivity_rest

SpecOrch == InitOrch /\ [][NextOrch]_vars

-----------------------------------------------------------------------------
(* heatpumps/sensitivity_analysis.py: sensitivity, insert_results *)

\* bounds: number of variables, largest steps value
MaxVars == 3
MaxVarSteps == 3

\* one entry of self.variables[obj][label][param], with the value
\* boundary_conditions[obj][label][param] of the model
Variable(i, steps) ==
    [name |-> <<"Connections", "c32", i>>, steps |-> steps,
     min |-> i, max |-> i + 2, base |-> i + 1]

\* self.variables in iteration order
VariableLists ==
    UNION {{[i \in 1..n |-> Variable(i, st[i])] : st \in [1..n -> 0..MaxVarSteps]} :
              n \in 1..MaxVars}

\* a number as a fraction
Frac(num, den) == [num |-> num, den |-> den]

\* np.linspace(min, max, steps), steps >= 2: steps values, both ends included
linspace(min, max, steps) ==
    [k \in 1..steps |-> Frac(min * (steps - 1) + (k - 1) * (max - min), steps - 1)]

\* the branches without the test for steps == 0
steps_branch_no_skip(steps) == IF steps = 1 THEN "raise" ELSE "linspace"

\* the branch of lines 36-45 a steps value takes
steps_branch(steps) ==
    CASE steps = 0 -> "continue"
      [] steps = 1 -> "raise"
      [] OTHER -> "linspace"

\* lines 9-17: input_dict holds the boundary condition value of every variable
input_dict_base(variables) ==
    [i \in 1..Len(variables) |-> Frac(variables[i].base, 1)]

\* the variable name f"{obj}-{label}-{param}" as its three parts; the base case
\* row is named "BASECASE"
BASECASE == <<"BASECASE", "", 0>>

\* insert_results(self, variable_name): the row and the model solve it makes
insert_results(variable_name, input_dict) ==
    [row |-> [Decision_Variable |-> variable_name, values |-> input_dict,
              objective |-> [get_objective |-> input_dict]],
     solve |-> [op |-> "solve_model", for |-> variable_name,
                kwargs |-> input_dict]]

NoResults == <<>>
SensStart(variables) ==
    [pc |-> "idle", variables |-> variables, input_dict |-> <<>>,
     results |-> <<>>, solves |-> <<>>, gen |-> 0, v |-> 0, ind |-> 0,
     param_range |-> <<>>, exc |-> "none", returned |-> NoResults]

\* lines 7-31: input_dict, the base case row (0, 0), gen = 1
sensitivity ==
    /\ sens.pc = "idle"
    /\ LET base == input_dict_base(sens.variables)
           r == insert_results(BASECASE, base)
       IN  sens' = [sens EXCEPT
                  !.pc = "loop",
                  !.input_dict = base,
                  !.results = <<[gen |-> 0, ind |-> 0, row |-> r.row]>>,
                  !.solves = <<r.solve>>,
                  !.gen = 1,
                  !.v = 1]
    /\ UNCHANGED <<hpvars, swvars, mp, orch>>

\* the loop is at variable v, before its steps value is read
AtVariable ==
    /\ sens.pc = "loop"
    /\ sens.v <= Len(sens.variables)
    /\ sens.param_range = <<>>

\* lines 35-37: steps == 0, continue
sensitivity_continue ==
    /\ AtVariable
    /\ steps_branch(sens.variables[sens.v].steps) = "continue"
    /\ sens' = [sens EXCEPT !.v = @ + 1]
    /\ UNCHANGED <<hpvars, swvars, mp, orch>>

\* lines 38-39: steps == 1, raise ValueError
sensitivity_raise ==
    /\ AtVariable
    /\ steps_branch(sens.variables[sens.v].steps) = "raise"
    /\ sens' = [sens EXCEPT !.pc = "raised", !.exc = "ValueError"]
    /\ UNCHANGED <<hpvars, swvars, mp, orch>>

\* lines 40-47: param_range, ind = 0; an empty range goes on to lines 55-58
sensitivity_linspace ==
    /\ AtVariable
    /\ steps_branch(sens.variables[sens.v].steps) = "linspace"
    /\ LET var == sens.variables[sens.v]
       IN  IF var.steps = 0
           THEN sens' = [sens EXCEPT
                      !.input_dict[sens.v] = Frac(var.base, 1),
                      !.gen = @ + 1,
                      !.v = @ + 1]
           ELSE sens' = [sens EXCEPT
                      !.param_range = linspace(var.min, var.max, var.steps),
                      !.ind = 0]
    /\ UNCHANGED <<hpvars, swvars, mp, orch>>

\* lines 47-53: one param_val; after the last one lines 55-58
sensitivity_param_val ==
    /\ sens.pc = "loop"
    /\ sens.param_range # <<>>
    /\ LET var == sens.variables[sens.v]
           input == [sens.input_dict EXCEPT ![sens.v] = sens.param_range[sens.ind + 1]]
           r == insert_results(var.name, input)
           last == sens.ind + 1 = Len(sens.param_range)
       IN  sens' = [sens EXCEPT
                  !.results = Append(@, [gen |-> sens.gen, ind |-> sens.ind,
                                         row |-> r.row]),
                  !.solves = Append(@, r.solve),
                  !.ind = @ + 1,
                  !.input_dict = IF last
                                 THEN [input EXCEPT ![sens.v] = Frac(var.base, 1)]
                                 ELSE input,
                  !.gen = IF last THEN @ + 1 ELSE @,
                  !.v = IF last THEN @ + 1 ELSE @,
                  !.param_range = IF last THEN <<>> ELSE @]
    /\ UNCHANGED <<hpvars, swvars, mp, orch>>

\* line 60
sensitivity_return ==
    /\ sens.pc = "loop"
    /\ sens.v > Len(sens.variables)
    /\ sens' = [sens EXCEPT !.pc = "returned", !.returned = sens.results]
    /\ UNCHANGED <<hpvars, swvars, mp, orch>>

InitSens ==
    /\ hp = Script
    /\ InitHP
    /\ InitSweep
    /\ mp = MpIdle
    /\ orch = OrchIdle
    /\ sens \in {SensStart(vs) : vs \in VariableLists}

NextSens ==
    \/ sensitivity
    \/ sensitivity_continue
    \/ sensitivity_raise
    \/ sensitivity_linspace
    \/ sensitivity_param_val
    \/ sensitivity_return

SpecSens == InitSens /\ [][NextSens]_vars

-----------------------------------------------------------------------------
(* chapter 5/run.py: multiplot_p_high_analysis_refrig_combined and           *)
(* multiplot_p_high_analysis_hp_combined                                     *)

\* markers of the combined plots
markers == <<"o", "x", "s", "D">>

\* params['fluids']['wf']: a backend prefix and a fluid name ("REFPROP::R600"),
\* or a bare fluid name
Fluid(backend, name) == [backend |-> backend, name |-> name]
contains_REFPROP(wf) == wf.backend = "REFPROP"

\* the module-level name `refrig`: bound by the loop of the __main__ block
\* (line 364, refrigs of line 337) when the file runs as a script, unbound
\* when the module is imported
Unbound == "<unbound>"
global_refrig == {Unbound, "R600"}

\* the parameter files of the combined drivers: fluids.wf names the file's
\* refrigerant, with the REFPROP backend or without a backend
WfCycles == {<<"REFPROP">>, <<"", "REFPROP">>}
CombinedCounts == {0, 1, 2, Len(markers) + 1}
CombinedFile(tc, rc, wc, d, k) ==
    [fluids |-> [wf |-> Fluid(Cyc(wc, k), Cyc(rc, k + d - 1))]]
        @@ InputFile(tc, rc, d, k)
CombinedTrees ==
    {[d \in 1..n |-> [k \in 1..cnt[d] |-> CombinedFile(tc, rc, wc, d, k)]] :
        n \in 1..MaxDirs, cnt \in [1..MaxDirs -> CombinedCounts],
        tc \in TypeCycles, rc \in RefrigCycles, wc \in WfCycles}

\* the filter of the combined drivers
combined_matches(fn, arg, params) ==
    IF fn = "hp_combined" THEN arg = params.setup.type
    ELSE upper(arg) = upper(params.setup.refrig)

\* lines 189-190 and 269-270: is fluids.wf assigned
replaces_wf(use_REFPROP, params) ==
    ~use_REFPROP /\ contains_REFPROP(params.fluids.wf)

\* the value of the name `refrig` in the assignment: the argument in
\* multiplot_p_high_analysis_refrig_combined, the module-level name in
\* multiplot_p_high_analysis_hp_combined (which has no local `refrig`)
refrig_name(fn, arg, g) == IF fn = "hp_combined" THEN g ELSE arg

\* params after lines 189-190 / 269-270
with_wf(fn, arg, g, use_REFPROP, params) ==
    IF replaces_wf(use_REFPROP, params)
    THEN [params EXCEPT !.fluids.wf = Fluid("", refrig_name(fn, arg, g))]
    ELSE params

\* the exception one iteration raises after the filter ("none": it plots)
combined_raises(fn, arg, g, use_REFPROP, params, count) ==
    IF replaces_wf(use_REFPROP, params) /\ refrig_name(fn, arg, g) = Unbound
    THEN "NameError"
    ELSE IF count + 1 > Len(markers) THEN "IndexError"
    ELSE "none"

CombinedStart(tree, g) ==
    [use_REFPROP |-> TRUE, refrig |-> g, to_csv |-> <<>>] @@ MpStart(tree)

multiplot_p_high_analysis_refrig_combined(refrig, use_REFPROP) ==
    /\ mp.pc = "idle"
    /\ mp' = [mp EXCEPT !.pc = "loop", !.fn = "refrig_combined", !.arg = refrig,
                        !.use_REFPROP = use_REFPROP, !.d = 1, !.f = 1]
    /\ UNCHANGED <<hpvars, swvars, orch, sens>>

multiplot_p_high_analysis_hp_combined(hptype, use_REFPROP) ==
    /\ mp.pc = "idle"
    /\ mp' = [mp EXCEPT !.pc = "loop", !.fn = "hp_combined", !.arg = hptype,
                        !.use_REFPROP = use_REFPROP, !.d = 1, !.f = 1]
    /\ UNCHANGED <<hpvars, swvars, orch, sens>>

\* one iteration that ends at `continue`: the file is read
combined_continue ==
    /\ InFile
    /\ ~combined_matches(mp.fn, mp.arg, mp.tree[mp.d][mp.f])
    /\ mp' = [mp EXCEPT !.opened = Append(@, <<mp.d, mp.f>>), !.f = @ + 1]
    /\ UNCHANGED <<hpvars, swvars, orch, sens>>

\* one iteration that constructs and simulates the model, writes the csv and
\* plots the two curves
combined_plot ==
    /\ InFile
    /\ LET file == mp.tree[mp.d][mp.f]
           path == <<mp.d, mp.f>>
           params == with_wf(mp.fn, mp.arg, mp.refrig, mp.use_REFPROP, file)
       IN  /\ combined_matches(mp.fn, mp.arg, file)
           /\ combined_raises(mp.fn, mp.arg, mp.refrig, mp.use_REFPROP, file,
                              mp.color_count) = "none"
           /\ mp' = [mp EXCEPT
                  !.opened = Append(@, path),
                  !.simulated = Append(@, simulate(path, params)),
                  !.to_csv = Append(@, path),
                  !.curves = Append(@, [file |-> path,
                                        marker |-> markers[mp.color_count + 1]]),
                  !.color_count = @ + 1,
                  !.f = @ + 1]
    /\ UNCHANGED <<hpvars, swvars, orch, sens>>

\* one iteration that raises: NameError at the assignment of fluids.wf before
\* the model is constructed, or IndexError at markers[count] after the
\* simulation and the csv
combined_plot_raises ==
    /\ InFile
    /\ LET file == mp.tree[mp.d][mp.f]
           path == <<mp.d, mp.f>>
           params == with_wf(mp.fn, mp.arg, mp.refrig, mp.use_REFPROP, file)
           exc == combined_raises(mp.fn, mp.arg, mp.refrig, mp.use_REFPROP,
                                  file, mp.color_count)
       IN  /\ combined_matches(mp.fn, mp.arg, file)
           /\ exc # "none"
           /\ mp' = [mp EXCEPT
                  !.opened = Append(@, path),
                  !.simulated = IF exc = "NameError" THEN @
                                ELSE Append(@, simulate(path, params)),
                  !.to_csv = IF exc = "NameError" THEN @ ELSE Append(@, path),
                  !.pc = "raised",
                  !.exc = exc]
    /\ UNCHANGED <<hpvars, swvars, orch, sens>>

\* after the walk: line 304 of multiplot_p_high_analysis_hp_combined reads
\* `res`, which is unbound when no file was simulated; then the figure
combined_return ==
    /\ mp.pc = "loop"
    /\ mp.d > Len(mp.tree)
    /\ mp' = IF mp.fn = "hp_combined" /\ mp.simulated = <<>>
             THEN [mp EXCEPT !.pc = "raised", !.exc = "UnboundLocalError"]
             ELSE [mp EXCEPT !.pc = "returned"]
    /\ UNCHANGED <<hpvars, swvars, orch, sens>>

InitCombined ==
    /\ hp = Script
    /\ InitHP
    /\ InitSweep
    /\ mp \in {CombinedStart(t, g) : t \in CombinedTrees, g \in global_refrig}
    /\ orch = OrchIdle
    /\ sens = SensIdle

NextCombined ==
    \/ \E refrig \in RefrigArgs, use_REFPROP \in BOOLEAN :
          multiplot_p_high_analysis_refrig_combined(refrig, use_REFPROP)
    \/ \E hptype \in HPTypeArgs, use_REFPROP \in BOOLEAN :
          multiplot_p_high_analysis_hp_combined(hptype, use_REFPROP)
    \/ combined_continue
    \/ combined_plot
    \/ combined_plot_raises
    \/ multiplot_next_dir
    \/ combined_return

SpecCombined == InitCombined /\ [][NextCombined]_vars

-----------------------------------------------------------------------------
(* Claims about one heat pump object (specification Spec) *)

\* the Connection objects stored as values of self.conns
ConnectionObjects == {conns[k] : k \in DOMAIN conns}

\* C1: run_model calls generate_components, generate_connections,
\* init_simulation and design_simulation once each and in that order; the
\* network is solved exactly twice per run_model, once at the end of
\* init_simulation and once in design_simulation; and no solve happens before
\* all connections and the three busses have been added to the network.
C1_RunModelSolvesTwiceOnCompleteNetwork ==
    hp \in Classes =>
      /\ calls = SubSeq(<<"generate_components", "generate_connections",
                          "init_simulation", "design_simulation">>, 1, Len(calls))
      /\ Len(calls) = 4 =>
            /\ Len(solves) = 2
            /\ solves[1].caller = "init_simulation"
            /\ solves[2].caller = "design_simulation"
      /\ \A i \in 1..Len(solves) :
            /\ Len(calls) >= 3
            /\ ConnectionObjects # {}
            /\ ConnectionObjects \subseteq solves[i].nw_conns
            /\ solves[i].nw_busses = {"power input", "heat input", "heat output"}

\* C2: every connection enthalpy the initial parametrisation specifies (those
\* specified at the first solve) is unset again when the design solve runs.
C2_StartEnthalpiesUnsetAtDesignSolve ==
    Len(solves) >= 2 =>
        solves[1].h_specified \cap solves[2].h_specified = {}

\* C3: after generate_connections the objects passed to add_conns are exactly
\* the Connection objects stored as values of self.conns.
C3_AddConnsGetsExactlyTheConnections ==
    (pc >= 2 /\ ConnectionObjects # {}) => nw_conns = ConnectionObjects

(* run_p_high_analysis *)

Solved == SelectSeq(sw_log, IsSolve)

\* s lists a, a+w, a+2w, ... as long as the value is strictly below b
IsSweepList(s, a, b, w) ==
    /\ \A i \in 1..Len(s) : s[i] = a + (i - 1) * w /\ s[i] < b
    /\ a + Len(s) * w >= b

\* the pressure at index position i failed: its solve or its analysis raised
Failed(p) == \E j \in 1..Len(sw_log) : sw_log[j].p = p /\ sw_log[j].raised

\* C4: for stepwidth >= 1 the sweep visits exactly p_min, p_min+stepwidth, ...
\* strictly below p_max, each once and ascending; c32.p holds the pressure
\* when its solve runs (set just before); the results table has exactly that
\* index and the columns COP and epsilon; with p_min >= p_max nothing is
\* solved and the tables are empty.
C4_SweepVisitsRange ==
    sw_pc # "idle" =>
      /\ IsSweepList(results.index, sw_args.p_min, sw_args.p_max, sw_args.stepwidth)
      /\ results.columns = <<"COP", "epsilon">>
      /\ DOMAIN results.loc = Range(results.index)
      /\ E_Ds.index = results.index
      /\ Len(Solved) <= Len(results.index)
      /\ \A i \in 1..Len(Solved) :
            Solved[i].p = results.index[i] /\ Solved[i].c32_p = Solved[i].p
      /\ \A j \in 1..Len(sw_log) :
            sw_log[j].op = "solve" =>
                /\ j > 1
                /\ sw_log[j - 1].op = "set_attr"
                /\ sw_log[j - 1].p = sw_log[j].p
      /\ sw_pc = "returned" => Len(Solved) = Len(results.index)
      /\ sw_args.p_min >= sw_args.p_max =>
            /\ sw_log = <<>>
            /\ results.index = <<>>
            /\ E_Ds.index = <<>> /\ E_Ds.columns = {}

\* C4 witness: a returned sweep with stepwidth 2 over two pressures
C4_Witness ==
    /\ sw_pc = "returned"
    /\ sw_args.stepwidth = 2
    /\ Len(results.index) = 2
    /\ Len(Solved) = 2

\* C5, state part: a pressure whose solve or analysis raised keeps NaN in both
\* columns, every pressure before the loop position was attempted, and a
\* returned sweep attempted every pressure.
C5_State ==
    sw_pc # "idle" =>
      /\ \A p \in Range(results.index) :
            Failed(p) => results.loc[p] = [COP |-> NaN, epsilon |-> NaN]
      /\ sw_i <= Len(results.index) + 1
      /\ \A i \in 1..Len(results.index) :
            (i < sw_i) <=> (\E j \in 1..Len(Solved) : Solved[j].p = results.index[i])
      /\ sw_pc = "returned" => sw_i = Len(results.index) + 1

\* C5, step part: a step of the loop leaves the entries of the earlier
\* pressures as they were and moves on by one pressure, whatever it raised.
C5_Step ==
    (sw_pc = "loop" /\ sw_log' # sw_log) =>
      /\ sw_pc' = "loop"
      /\ sw_i' = sw_i + 1
      /\ \A i \in 1..Len(results.index) :
            i # sw_i => results'.loc[results.index[i]] = results.loc[results.index[i]]

\* C5: an exception of the solve or of the exergy analysis at one pressure is
\* caught: that pressure's COP and epsilon stay NaN, earlier entries are
\* unchanged, and the sweep goes on with every remaining pressure.
C5_ExceptionsAreCaught == [](C5_State) /\ [][C5_Step]_vars

\* C5 witness: a returned sweep in which a failed pressure lies between two
\* pressures with a recorded COP
C5_Witness ==
    /\ sw_pc = "returned"
    /\ \E i, j, k \in 1..Len(results.index) :
          /\ i < j /\ j < k
          /\ ~results.loc[results.index[i]].COP.nan
          /\ Failed(results.index[j])
          /\ ~results.loc[results.index[k]].COP.nan

-----------------------------------------------------------------------------
(* Claims about the multiplot drivers (specification SpecPlot) *)

\* the files of the tree that pass the filter of the running driver
Matching == {p \in walk_files(mp.tree) :
                file_matches(mp.fn, mp.arg, mp.tree[p[1]][p[2]])}

\* every matching file was simulated exactly once (run_model, then the sweep
\* over its p_high_min..p_high_max with stepwidth 1), nothing else was, and
\* every matching file has exactly one curve
SimulatedAndPlottedExactlyMatching ==
    /\ Len(mp.simulated) = Cardinality(Matching)
    /\ Len(mp.curves) = Cardinality(Matching)
    /\ \A p \in Matching :
          /\ \E i \in 1..Len(mp.simulated) :
                mp.simulated[i] = simulate(p, mp.tree[p[1]][p[2]])
          /\ \E i \in 1..Len(mp.curves) :
                /\ mp.curves[i].file = p
                /\ mp.curves[i].x =
                      range(mp.tree[p[1]][p[2]].sensitivity.p_high_min,
                            mp.tree[p[1]][p[2]].sensitivity.p_high_max, 1)
                /\ mp.curves[i].label =
                      IF mp.fn = "hp" THEN mp.tree[p[1]][p[2]].setup.refrig
                      ELSE mp.tree[p[1]][p[2]].setup.type

\* C6: multiplot_p_high_analysis_hp(hptype) reads every file of the walked
\* tree, simulates exactly once every file whose setup.type equals hptype
\* (run_model, then run_p_high_analysis over the file's p_high_min..p_high_max
\* with stepwidth 1), plots exactly one curve per such file labelled with its
\* refrigerant, and never simulates a file of another type, whatever the
\* number of files per directory.
C6_HpReadsAllFilesAndPlotsMatching ==
    mp.fn = "hp" =>
        /\ \A i \in 1..Len(mp.simulated) :
              mp.simulated[i].params.setup.type = mp.arg
        /\ mp.pc = "returned" =>
              /\ Range(mp.opened) = walk_files(mp.tree)
              /\ SimulatedAndPlottedExactlyMatching

\* C7: multiplot_p_high_analysis_refrig(refrig) simulates and plots exactly
\* the files whose setup.refrig equals refrig in upper case, one curve per
\* such file labelled with the file's topology type, and never simulates a
\* file of another refrigerant.
C7_RefrigPlotsExactlyMatching ==
    (mp.fn = "refrig" /\ mp.result \in {"COP", "epsilon"}) =>
        /\ \A i \in 1..Len(mp.simulated) :
              upper(mp.simulated[i].params.setup.refrig) = upper(mp.arg)
        /\ mp.pc \in {"returned", "raised"} =>
              /\ mp.pc = "returned"
              /\ SimulatedAndPlottedExactlyMatching

\* C8: both drivers raise ValueError whenever the result argument is neither
\* 'COP' nor 'epsilon', however many parameter files match the filter.
C8_InvalidResultRaisesValueError ==
    (mp.pc \in {"returned", "raised"} /\ mp.result \notin {"COP", "epsilon"})
        => (mp.pc = "raised" /\ mp.exc = "ValueError")

-----------------------------------------------------------------------------
(* Claims about the orchestration (specification SpecOrch) *)

\* C9: read_scenario_information(basedir) raises ValueError without opening
\* any file when basedir has no entry named scenario.json; otherwise it
\* returns the content of scenario.json with exactly one key added or
\* overwritten, "path", set to basedir.
C9_ReadScenarioInformation ==
    orch.pc # "idle" =>
        IF "scenario.json" \notin orch.dir.entries
        THEN /\ orch.read.raised = "ValueError"
             /\ orch.read.opened = <<>>
             /\ orch.pc = "raised"
             /\ orch.exc = "ValueError"
        ELSE /\ orch.read.raised = "none"
             /\ DOMAIN orch.read.value.items =
                    DOMAIN orch.dir.scenario_json.items \cup {"path"}
             /\ orch.read.value.items["path"] = orch.basedir
             /\ \A k \in DOMAIN orch.dir.scenario_json.items \ {"path"} :
                    orch.read.value.items[k] = orch.dir.scenario_json.items[k]

\* a scenario.json that already has another "path" has been read
C9_Witness ==
    /\ orch.pc = "read"
    /\ InDict(orch.dir.scenario_json, "path")
    /\ orch.dir.scenario_json.items["path"] # orch.basedir
    /\ InDict(orch.dir.scenario_json, "model")

\* scenario.json holds at least the keys create_problem reads
ValidScenario ==
    /\ "scenario.json" \in orch.dir.entries
    /\ InDict(orch.dir.scenario_json, "opt")
    /\ InDict(orch.dir.scenario_json, "model")

\* C10: given a scenario directory with a scenario.json, program_opt and
\* program_sensitivity each pass to create_problem the data returned by
\* read_scenario_information with "scenario" set to "optimization"
\* respectively "sensitivity", and write optimization_result.csv respectively
\* sensitivity_result.csv inside that scenario directory.
C10_ProgramsCreateProblemAndWriteCsv ==
    (ValidScenario /\ orch.pc \in {"done", "raised"}) =>
        LET name == IF orch.program = "program_opt" THEN "optimization"
                    ELSE "sensitivity"
            file == IF orch.program = "program_opt"
                    THEN "optimization_result.csv"
                    ELSE "sensitivity_result.csv"
        IN  /\ orch.pc = "done"
            /\ orch.create_problem_args =
                   << <<setitem(orch.read.value, "scenario", PyStr(name))>> >>
            /\ orch.to_csv = <<join(orch.basedir, Path(FALSE, <<file>>))>>

-----------------------------------------------------------------------------
(* Claims about the sensitivity analysis (specification SpecSens) *)

\* the variables the loop has gone past or is at
Visited == {i \in 1..Len(sens.variables) : i <= sens.v}

\* C11: in sensitivity(), a variable whose steps value is 1 makes the call
\* raise ValueError and return no results; a variable whose steps value is 0
\* is skipped: no result row, no model solve, and no generation number is
\* consumed by it.
C11_StepsOneRaisesStepsZeroSkipped ==
    /\ sens.pc = "raised" =>
          /\ sens.exc = "ValueError"
          /\ sens.returned = NoResults
          /\ sens.variables[sens.v].steps = 1
    /\ sens.pc = "returned" =>
          \A i \in 1..Len(sens.variables) : sens.variables[i].steps # 1
    /\ (sens.pc # "idle" /\ sens.v <= Len(sens.variables)
          /\ sens.variables[sens.v].steps = 1 /\ sens.pc = "loop") =>
          sens.param_range = <<>>
    /\ \A i \in 1..Len(sens.variables) :
          sens.variables[i].steps = 0 =>
             /\ \A j \in 1..Len(sens.results) :
                   sens.results[j].row.Decision_Variable # sens.variables[i].name
             /\ \A j \in 1..Len(sens.solves) :
                   sens.solves[j].for # sens.variables[i].name
    /\ \A j \in 1..Len(sens.results) :
          \A i \in 1..Len(sens.variables) :
             sens.results[j].row.Decision_Variable = sens.variables[i].name =>
                sens.results[j].gen =
                   1 + Cardinality({k \in 1..(i - 1) : sens.variables[k].steps # 0})

\* a skipped variable, then a swept one, then one with steps 1 that raises
C11_Witness ==
    /\ sens.pc = "raised"
    /\ \E i, j \in 1..Len(sens.variables) :
          /\ i < j
          /\ j < sens.v
          /\ sens.variables[i].steps = 0
          /\ sens.variables[j].steps >= 2
          /\ \E r \in 1..Len(sens.results) :
                sens.results[r].row.Decision_Variable = sens.variables[j].name

-----------------------------------------------------------------------------
(* Claims about the combined multiplot drivers (specification SpecCombined) *)

\* C12: in both combined multiplot functions, when use_REFPROP is False and
\* the file's fluids.wf contains 'REFPROP', the model is constructed with
\* fluids.wf replaced by the refrigerant name of the file being processed
\* (compared in upper case, as the filter does); when use_REFPROP is True the
\* model is constructed with fluids.wf unchanged.
C12_RefpropFluidReplacedByFileRefrigerant ==
    /\ mp.exc # "NameError"
    /\ \A i \in 1..Len(mp.simulated) :
          LET file == mp.tree[mp.simulated[i].file[1]][mp.simulated[i].file[2]]
              wf == mp.simulated[i].params.fluids.wf
          IN  /\ (~mp.use_REFPROP /\ contains_REFPROP(file.fluids.wf)) =>
                    /\ wf.backend = ""
                    /\ upper(wf.name) = upper(file.setup.refrig)
              /\ mp.use_REFPROP => wf = file.fluids.wf

-----------------------------------------------------------------------------
(* Claims about the exergy analysis (specification SpecExergy) *)

\* the positions of the sweep's log that are exergy analyses of pressure p
AnalysesOf(p) ==
    {k \in 1..Len(sw_log) :
        sw_log[k].op = "perform_exergy_analysis" /\ sw_log[k].p = p}

\* no analysis without busses: a call made before init_simulation has created
\* the busses (no solve yet) raises KeyError and leaves epsilon NaN, so every
\* analysis that is performed comes after a solve
AnalysisOnlyAfterSolve ==
    \A i \in 1..Len(eans) :
       /\ eans[i].n_solves = 0 =>
             (eans[i].raised = "KeyError" /\ eans[i].epsilon = NaN)
       /\ eans[i].raised # "KeyError" => eans[i].n_solves >= 1

\* in the sweep: one analysis per pressure whose solve succeeded, right after
\* that solve, and values are recorded for a pressure only after its analysis
SweepAnalysesFollowTheirSolve ==
    /\ \A k \in 1..Len(sw_log) :
          sw_log[k].op = "perform_exergy_analysis" =>
             /\ k > 1
             /\ sw_log[k - 1].op = "solve"
             /\ sw_log[k - 1].p = sw_log[k].p
             /\ ~sw_log[k - 1].raised
    /\ \A i \in 1..Len(p_high_range) :
          LET p == p_high_range[i]
          IN  /\ Cardinality(AnalysesOf(p)) <= 1
              /\ (i < sw_i /\ \E k \in 1..Len(sw_log) :
                     sw_log[k].op = "solve" /\ sw_log[k].p = p /\ ~sw_log[k].raised)
                    => Cardinality(AnalysesOf(p)) = 1
              /\ (results.loc[p].COP # NaN \/ results.loc[p].epsilon # NaN) =>
                    \E k \in AnalysesOf(p) : ~sw_log[k].raised

-----------------------------------------------------------------------------
(* Claims about the tables of the sweep (specification Spec) *)

\* C14: in the results table of run_p_high_analysis every COP entry is NaN
\* or lies in 1 <= COP <= 10, and every epsilon entry is NaN or lies in
\* 0 <= epsilon < 1, after any sequence of succeeding and failing steps.
C14_ResultsArePlausibleOrNaN ==
    \A p \in Range(p_high_range) :
       /\ \/ results.loc[p].COP = NaN
          \/ /\ ~results.loc[p].COP.nan
             /\ 1 * Scale <= results.loc[p].COP.val
             /\ results.loc[p].COP.val <= 10 * Scale
       /\ \/ results.loc[p].epsilon = NaN
          \/ /\ ~results.loc[p].epsilon.nan
             /\ 0 <= results.loc[p].epsilon.val
             /\ results.loc[p].epsilon.val < 1 * Scale

\* a returned sweep with a COP of exactly 10 next to an implausible epsilon,
\* an epsilon of exactly 0, and a pressure whose step failed
C14_Witness ==
    /\ sw_pc = "returned"
    /\ \E p, q, r \in Range(p_high_range) :
          /\ p # q /\ q # r /\ p # r
          /\ results.loc[p].COP = Num(10 * Scale)
          /\ results.loc[p].epsilon = NaN
          /\ results.loc[q].epsilon = Num(0)
          /\ Failed(r)

\* the columns a recorded row of E_Ds holds
E_Ds_row == ({comps[k].label : k \in DOMAIN comps} \ skip_comps) \cup {"E_D_tot"}

-----------------------------------------------------------------------------
(* Claims about the ports of the topologies (specification Spec) *)

\* the inlets and outlets of a component type
inlets(cls) ==
    CASE cls \in {"Valve", "Compressor", "CycleCloser", "DropletSeparator", "Sink"}
            -> {"in1"}
      [] cls \in {"HeatExchanger", "Merge"} -> {"in1", "in2"}
      [] OTHER -> {}
outlets(cls) ==
    CASE cls \in {"Valve", "Compressor", "CycleCloser", "Merge", "Source"}
            -> {"out1"}
      [] cls \in {"HeatExchanger", "DropletSeparator"} -> {"out1", "out2"}
      [] OTHER -> {}

\* the connections that leave component k through port o / enter it through i
Leaving(k, o) == {c \in DOMAIN conns : conns[c].source = k /\ conns[c].source_id = o}
Entering(k, i) == {c \in DOMAIN conns : conns[c].target = k /\ conns[c].target_id = i}

\* C16: after generate_connections of any topology, every connection leaves
\* its source through an outlet and enters its target through an inlet that
\* the component type has, no port is used by two connections, and every
\* port of every generated component is connected.
C16_PortsExistAreUniqueAndAllConnected ==
    (hp \in Classes /\ pc >= 2) =>
        /\ \A c \in DOMAIN conns :
              /\ conns[c].source \in DOMAIN comps
              /\ conns[c].target \in DOMAIN comps
              /\ conns[c].source_id \in outlets(comps[conns[c].source].cls)
              /\ conns[c].target_id \in inlets(comps[conns[c].target].cls)
              /\ Cardinality(Leaving(conns[c].source, conns[c].source_id)) = 1
              /\ Cardinality(Entering(conns[c].target, conns[c].target_id)) = 1
        /\ \A k \in DOMAIN comps :
              /\ \A o \in outlets(comps[k].cls) : Leaving(k, o) # {}
              /\ \A i \in inlets(comps[k].cls) : Entering(k, i) # {}

====
